---- MODULE Spec2Model ----
(***************************************************************************)
(* SISTEMACHAMADOS: a helpdesk.  Model of the WhatsApp client wrapper      *)
(* (tickets/wapi.py), of the WebSocket consumer (tickets/consumers.py) and *)
(* of the ticket views (tickets/views.py).                                 *)
(*                                                                         *)
(* One request handler is one action.  An exception is the set of the      *)
(* classes it is an instance of: {} stands for "nothing was raised".       *)
(***************************************************************************)
EXTENDS Integers, Sequences, FiniteSets, TLC

VARIABLES
    now,            \* time.time(), in seconds
    _group_cache,    \* wapi._group_cache: [has, groups, ts], has = FALSE while it is empty
    lastLookup,     \* history: the last group list a lookup returned, and when (has = FALSE: none yet)
    wapiCall,       \* history: the last call of ensure_group_exists
    listIn,         \* the answers of the four group endpoints to one list_wapi_groups call
    listOut,        \* what that call did (done = FALSE before it ran)
    summaryIn,      \* the arguments of one _build_whatsapp_summary call
    summaryOut,     \* what that call returned (done = FALSE before it ran)
    report,         \* the ti_reports request that is running its queries
    sendOut,        \* history: the last call of send_whatsapp_message (done = FALSE: none yet)
    updating,       \* the status changes that are running write by write, and the events they recorded
    users,          \* auth.User rows: [exists, is_staff, is_superuser, ti_group, has_email]
    tickets,        \* Ticket rows by pk: [exists, created_by, assigned_to, status, ...]
    sessions,       \* the WebSocket connections by channel name: [state, user, had_ti]
    channel_groups, \* the channel layer's groups: [tickets, ti], sets of channel names
    inventory,      \* InventoryItem rows, in the order of their creation
    recipients,     \* WhatsAppRecipient rows: the phone numbers stored (unique)
    lastReq         \* the HTTP request being answered: its response and what it did, in
                    \* order (view = "": no request is being answered)

\* ------------------------------------------------------------------ bounds

\* The clock runs from StartTime to MaxTime in steps of TimeStep seconds.
StartTime == 1
TimeStep == 10
MaxTime == 41

\* ------------------------------------------------------- tickets/wapi.py

\* views.py: TI_CHAMADOS_GROUP_JID, the configured group.
TI_CHAMADOS_GROUP_JID == "120363421981424263@g.us"

\* Another group of the WhatsApp session.
OtherGroupJid == "120363000000000000@g.us"

GroupIds == {TI_CHAMADOS_GROUP_JID, OtherGroupJid}

\* The seconds a group list stays valid (ensure_group_exists: now - cached > 30).
CacheTTL == 30

\* Exceptions, as the set of classes the raised object is an instance of.
NoException == {}
RequestException == {"RequestException"}
ValueError == {"ValueError"}
\* requests.exceptions.JSONDecodeError (requests >= 2.27) is both.
JSONDecodeError == {"RequestException", "ValueError"}

\* The four endpoints, in the order of the list `endpoints`.
WAPI_GET_ALL_GROUPS_URL == "group/get-all-groups"
WAPI_API_GROUPS_URL == "api/<instance>/groups"
WAPI_GROUPS_URL == "groups"
WAPI_LEGACY_GROUPS_URL == "whatsapp/group/list"

endpoints ==
    << WAPI_GET_ALL_GROUPS_URL, WAPI_API_GROUPS_URL, WAPI_GROUPS_URL, WAPI_LEGACY_GROUPS_URL >>

\* A body that is not JSON.
NotJson == [wrap |-> "not-json", key |-> "none", items |-> << >>]

\* One raw entry of a group list is something that is no dict, or a dict that
\* carries the group id under one of the keys id, jid, chatId, or under none:
\* [isdict, key, value].
\* A JSON body: `wrap` is the key of the outer dict the list sits under ("bare":
\* no outer dict), `key` is where the list itself is: "list" (the value is the
\* list), or the key of a dict that holds it.
\*   [wrap |-> "bare",   key |-> "list"]    [ ... ]
\*   [wrap |-> "bare",   key |-> "groups"]  {"groups": [ ... ]}
\*   [wrap |-> "result", key |-> "list"]    {"result": [ ... ]}
\*   [wrap |-> "data",   key |-> "chats"]   {"data": {"chats": [ ... ]}}
Payload(wrap, key, items) == [wrap |-> wrap, key |-> key, items |-> items]

\* _normalize_groups_payload
_normalize_groups_payload(payload) ==
    LET inner == [key |-> payload.key, items |-> payload.items]
        \* an empty list is falsy; a dict with a key is not
        innerFalsy == payload.key = "list" /\ payload.items = << >>
        \* result = payload.get("result") or payload.get("data") or payload
        result ==
            IF payload.wrap = "bare" THEN inner
            ELSE IF innerFalsy THEN [key |-> payload.wrap, items |-> << >>]
            ELSE inner
        \* dict: result.get("groups") or result.get("chats") or result.get("sessions") or []
        groups ==
            IF result.key = "list" THEN result.items
            ELSE IF result.key \in {"groups", "chats", "sessions"} THEN result.items
            ELSE << >>
        keep(raw) == raw.isdict /\ raw.key # "none" /\ raw.value # ""
        kept == SelectSeq(groups, keep)
    IN  [i \in 1..Len(kept) |-> [id |-> kept[i].value]]

\* An endpoint's answer: no answer (requests.RequestException), or a response.
TransportError == [kind |-> "transport", status |-> 0, body |-> NotJson]
Response(status, body) == [kind |-> "http", status |-> status, body |-> body]

\* response = None
NoResponse == [kind |-> "none", status |-> 0, body |-> NotJson]

\* bool(response) of a requests.Response is response.ok: the status is below 400.
response_truthy(response) == response.kind # "none" /\ response.status < 400

\* fetch_loop with a 404 ending the search.
RECURSIVE fetch_loop_stops_at_404(_, _, _, _)
fetch_loop_stops_at_404(answers, i, response, requested) ==
    IF i > Len(endpoints) THEN [response |-> response, requested |-> requested]
    ELSE
        LET answer == answers[i]
            req == Append(requested, endpoints[i])
        IN  IF answer.kind = "transport"
            THEN fetch_loop_stops_at_404(answers, i + 1, response, req)
            ELSE [response |-> answer, requested |-> req]

\* The loop of list_wapi_groups from endpoint i on: `response` keeps the last
\* response received, `requested` the URLs requested.
RECURSIVE fetch_loop(_, _, _, _)
fetch_loop(answers, i, response, requested) ==
    IF i > Len(endpoints) THEN [response |-> response, requested |-> requested]
    ELSE
        LET answer == answers[i]
            req == Append(requested, endpoints[i])
        IN  IF answer.kind = "transport" THEN fetch_loop(answers, i + 1, response, req)
            ELSE IF answer.status = 404 THEN fetch_loop(answers, i + 1, answer, req)
            ELSE [response |-> answer, requested |-> req]

\* list_wapi_groups: the URLs it requested, what it raised, what it returned.
list_wapi_groups(answers) ==
    LET got == fetch_loop(answers, 1, NoResponse, << >>)
        response == got.response
        out(raised, value) == [requested |-> got.requested, raised |-> raised, value |-> value]
    IN  IF ~response_truthy(response) THEN out(NoException, << >>)
        ELSE IF response.status = 404 THEN out(NoException, << >>)
        ELSE IF response.status >= 400 THEN out(RequestException, << >>)
        ELSE IF response.body = NotJson THEN out(JSONDecodeError, << >>)
        ELSE out(NoException, _normalize_groups_payload(response.body))

GroupListIds(groups) == { groups[i].id : i \in 1..Len(groups) }

\* _group_cache = {}
EmptyCache == [has |-> FALSE, groups |-> << >>, ts |-> 0]

\* The staleness test of ensure_group_exists with >= for >.
cache_is_stale_at_ttl(cache, tnow) ==
    \/ ~cache.has \/ cache.groups = << >>
    \/ cache.ts = 0
    \/ tnow - cache.ts >= CacheTTL

\* The staleness test of ensure_group_exists without the age test.
cache_is_stale_never_expires(cache, tnow) ==
    \/ ~cache.has \/ cache.groups = << >>
    \/ cache.ts = 0

\* if not groups or not cached or now - cached > 30
\* (not groups: None or the empty list; not cached: None or 0)
cache_is_stale(cache, tnow) ==
    \/ ~cache.has \/ cache.groups = << >>
    \/ cache.ts = 0
    \/ tnow - cache.ts > CacheTTL

\* What ensure_group_exists leaves: the cache, the URLs it requested, what it
\* raised, and the list it decided on (decided = FALSE: it decided on none).
Ensured(cache, requested, raised, msg, decided, used) ==
    [cache |-> cache, requested |-> requested, raised |-> raised, msg |-> msg,
     decided |-> decided, used |-> used]

\* if not any(g.get("id") == group_id for g in groups): raise ValueError
find_group(cache, requested, group_id, groups) ==
    IF \E i \in 1..Len(groups) : groups[i].id = group_id
    THEN Ensured(cache, requested, NoException, "", TRUE, groups)
    ELSE Ensured(cache, requested, ValueError, "group not found", TRUE, groups)

\* The try block of ensure_group_exists, given what list_wapi_groups did:
\* RequestException becomes ValueError, any other exception goes through, a list
\* is stored with the time.
refresh_group_cache(cache, group_id, tnow, looked) ==
    IF "RequestException" \in looked.raised
    THEN Ensured(cache, looked.requested, ValueError, "could not validate", FALSE, << >>)
    ELSE IF looked.raised # NoException
    THEN Ensured(cache, looked.requested, looked.raised, "", FALSE, << >>)
    ELSE find_group([has |-> TRUE, groups |-> looked.value, ts |-> tnow],
                    looked.requested, group_id, looked.value)

\* ensure_group_exists
ensure_group_exists(cache, group_id, tnow, answers) ==
    IF cache_is_stale(cache, tnow)
    THEN refresh_group_cache(cache, group_id, tnow, list_wapi_groups(answers))
    ELSE find_group(cache, << >>, group_id, cache.groups)

\* ------------------------------------------------------------ the answers

\* The bodies the endpoints answer with.
SomeBodies ==
    { NotJson,
      Payload("bare", "list", << >>),
      Payload("bare", "list", << [isdict |-> TRUE, key |-> "id", value |-> TI_CHAMADOS_GROUP_JID] >>),
      Payload("result", "groups", << [isdict |-> TRUE, key |-> "jid", value |-> OtherGroupJid] >>),
      Payload("data", "list",
              << [isdict |-> TRUE, key |-> "jid", value |-> OtherGroupJid],
                 [isdict |-> TRUE, key |-> "chatId", value |-> TI_CHAMADOS_GROUP_JID] >>) }

\* What one endpoint answers: nothing, 404, or 200 or 500 with a body.
Answers ==
    {TransportError, Response(404, NotJson)}
        \cup { Response(s, b) : s \in {200, 500}, b \in SomeBodies }

\* Every way the four endpoints answer one call.
GroupListAnswers == [1..4 -> Answers]

\* The scenarios of a call made through ensure_group_exists: the first endpoint
\* answers anything, the others answer alike.
EnsureAnswers ==
    { a \in GroupListAnswers :
        /\ a[2] = a[3] /\ a[3] = a[4]
        /\ a[2] \in { TransportError, Response(404, NotJson),
                       Response(200, Payload("bare", "list",
                           << [isdict |-> TRUE, key |-> "id", value |-> TI_CHAMADOS_GROUP_JID] >>)) } }

\* What the send endpoint answers: nothing, or a response whose body is JSON
\* or not; a JSON body carries status, state, messageId, insertedId ("" when
\* the key is missing or its value is falsy).
SendResult(status, state, messageId, insertedId) ==
    [status |-> status, state |-> state, messageId |-> messageId, insertedId |-> insertedId]

NoSendResult == SendResult("", "", "", "")

SendTransportError == [kind |-> "transport", status |-> 0, json |-> FALSE, result |-> NoSendResult]
SendResponse(status, json, result) ==
    [kind |-> "http", status |-> status, json |-> json, result |-> result]

SUCCESS_STATUSES == {"success", "sent", "ok", "queued"}

\* _normalize_response: (status or state, messageId or insertedId)
_normalize_response(result) ==
    [status |-> IF result.status # "" THEN result.status ELSE result.state,
     message_id |-> IF result.messageId # "" THEN result.messageId ELSE result.insertedId]

\* The destinations a message is sent to, and what _normalize_destination makes
\* of each: (to, type), or ValueError.
ContactJid == "5514988208134@c.us"
FormattedPhone == "+55 (14) 98820-8134"
NoDigits == "grupo ti"
Blank == "   "

_normalize_destination(destination) ==
    LET out(raised, to, type) == [raised |-> raised, to |-> to, type |-> type]
    IN  CASE destination \in {"", Blank} -> out(ValueError, "", "")
          [] destination \in GroupIds -> out(NoException, destination, "group")
          [] destination = ContactJid -> out(NoException, destination, "contact")
          [] destination = FormattedPhone -> out(NoException, "5514988208134", "contact")
          [] OTHER -> out(ValueError, "", "")

\* What send_whatsapp_message leaves: the cache, the HTTP requests it made, what
\* it raised, and whether it returned the provider's response.
Sent(cache, requests, raised, returned) ==
    [cache |-> cache, requests |-> requests, raised |-> raised, returned |-> returned]

\* The POST of send_whatsapp_message and the reading of its answer, after the
\* group check `checked`.
post_send_text(checked, send) ==
    LET posted == Append(checked.requested, "message/send-text")
        normal == _normalize_response(send.result)
        ok_result == normal.status \in SUCCESS_STATUSES \/ normal.message_id # ""
    IN  IF checked.raised # NoException
        THEN Sent(checked.cache, checked.requested, checked.raised, FALSE)
        ELSE IF send.kind = "transport" THEN Sent(checked.cache, posted, RequestException, FALSE)
        ELSE IF send.status >= 400 THEN Sent(checked.cache, posted, RequestException, FALSE)
        ELSE IF ~send.json THEN Sent(checked.cache, posted, JSONDecodeError, FALSE)
        ELSE IF ~ok_result THEN Sent(checked.cache, posted, RequestException, FALSE)
        ELSE Sent(checked.cache, posted, NoException, TRUE)

\* A variant of send_to that posts to a group without looking for it.
send_to_unchecked(cache, tnow, dest, env) ==
    IF dest.raised # NoException THEN Sent(cache, << >>, dest.raised, FALSE)
    ELSE post_send_text(Ensured(cache, << >>, NoException, "", FALSE, << >>), env.send)

\* send_whatsapp_message, after _normalize_destination: a group is checked first.
send_to(cache, tnow, dest, env) ==
    IF dest.raised # NoException THEN Sent(cache, << >>, dest.raised, FALSE)
    ELSE IF dest.type = "group"
    THEN post_send_text(ensure_group_exists(cache, dest.to, tnow, env.groups), env.send)
    ELSE post_send_text(Ensured(cache, << >>, NoException, "", FALSE, << >>), env.send)

\* send_whatsapp_message
\* env.groups: the answers of the group endpoints; env.send: the send endpoint's.
send_whatsapp_message(cache, tnow, destination, env) ==
    send_to(cache, tnow, _normalize_destination(destination), env)

\* -------------------------------------------------------- tickets/models.py

\* TicketStatus (NEW is a reserved word)
NEW_STATUS == "new"
IN_PROGRESS == "in_progress"
AWAITING == "awaiting"
RESOLVED == "resolved"
TicketStatus == {NEW_STATUS, IN_PROGRESS, AWAITING, RESOLVED}
TicketUrgency == {"low", "normal", "medium", "high", "urgent"}
TicketType == {"incident", "request", "improvement", "programado"}

Users == {"ti1", "ti2", "emp1"}
NoUser == "None"

\* A text, as far as the forms look at it: its length and whether it is all
\* whitespace.  NoText is None or "".
Txt(len, blank) == [len |-> len, blank |-> blank, pad |-> 0]
NoText == Txt(0, TRUE)
\* str.strip()
strip(t) == IF t.blank THEN NoText ELSE [t EXCEPT !.len = @ - t.pad, !.pad = 0]

\* A Ticket row.  resolved_at = 0 is None; deleted: the row was deleted (its pk is
\* not given again).
NoTicket ==
    [exists |-> FALSE, deleted |-> FALSE, created_by |-> NoUser, assigned_to |-> NoUser,
     status |-> NEW_STATUS, urgency |-> "normal", ticket_type |-> "incident",
     resolved_at |-> 0, resolution |-> NoText, working_users |-> {}]

\* The inventory items that are ever created.
MaxItems == 1

\* The pks of the tickets that are created, and the pks requests name.
TicketIds == {1}
RequestPks == {1, 2}

\* -------------------------------------------------------- tickets/views.py

\* _is_ti answering yes for every user.
_is_ti_everyone(user) == users[user].exists

\* _is_ti: member of the group TI, or staff.
_is_ti(user) == users[user].ti_group \/ users[user].is_staff

\* One thing a request did: a database write, a broadcast, a notification.
Eff(op, a, b, ok) == [op |-> op, a |-> a, b |-> b, ok |-> ok]

\* What a piece of a handler leaves: the ticket row, the group cache, what it did
\* in order, and the exception that ended it (NoException: it returned).
Step(ticket, cache, trace, raised) ==
    [ticket |-> ticket, cache |-> cache, trace |-> trace, raised |-> raised]

\* get_channel_layer(): CHANNEL_LAYERS is configured (TicketConsumer uses
\* self.channel_layer without a test).
channel_layer == TRUE

\* broadcast_ticket_event: group_send to the group 'tickets'.
broadcast_ticket_event(event_type, payload) ==
    IF ~channel_layer THEN << >>
    ELSE << Eff("group_send", "tickets", event_type, payload) >>

\* The try/except of _notify_whatsapp around the send: only RequestException
\* is caught (and logged).
notify_outcome(sent) ==
    LET caught == "RequestException" \in sent.raised
        outcome == IF sent.returned THEN "sent" ELSE IF caught THEN "logged" ELSE "raised"
    IN  [cache |-> sent.cache,
         trace |-> << Eff("whatsapp", TI_CHAMADOS_GROUP_JID, outcome, sent.returned) >>,
         raised |-> IF caught THEN NoException ELSE sent.raised]

\* _notify_whatsapp: sends the summary to the configured group.
_notify_whatsapp(cache, env) ==
    notify_outcome(send_whatsapp_message(cache, now, TI_CHAMADOS_GROUP_JID, env))

\* _notify_ticket_email: to the creator, when the creator has an e-mail address;
\* every exception of send_mail is caught.  `body` names the text it carries.
_notify_ticket_email(ticket, body, env) ==
    IF ~users[ticket.created_by].has_email THEN << >>
    ELSE << Eff("email", ticket.created_by, body, env.mail_ok) >>

\* The end of _update_ticket_status: after _notify_whatsapp (`wa`), the e-mail.
status_notified(ticket, writes, wa, env) ==
    IF wa.raised # NoException
    THEN Step(ticket, wa.cache, writes \o wa.trace, wa.raised)
    ELSE Step(ticket, wa.cache,
              writes \o wa.trace \o _notify_ticket_email(ticket, "status", env),
              NoException)

\* A variant of _update_ticket_status that leaves resolved_at alone when the new
\* status is not resolved.
_update_ticket_status_keeps_resolved_at(ticket, cache, status, assigned, resolution_text, pause_reason, performed_by, env) ==
    LET saved ==
            [ticket EXCEPT
                !.status = status,
                !.assigned_to = IF assigned # NoUser THEN assigned ELSE @,
                !.resolved_at = IF status = RESOLVED THEN now ELSE @,
                !.resolution =
                    IF status = RESOLVED
                    THEN (IF resolution_text # NoText THEN resolution_text ELSE @)
                    ELSE @,
                !.working_users = IF assigned # NoUser THEN @ \cup {assigned} ELSE @]
        writes ==
            << Eff("ticket.save", status, "", TRUE),
               Eff("TicketEvent", "status_change", status, TRUE) >>
            \o (IF assigned # NoUser THEN << Eff("working_users.add", assigned, "", TRUE) >>
                ELSE << >>)
            \o broadcast_ticket_event("ticket_status_changed", "status")
    IN  status_notified(saved, writes, _notify_whatsapp(cache, env), env)

\* _update_ticket_status
_update_ticket_status(ticket, cache, status, assigned, resolution_text, pause_reason, performed_by, env) ==
    LET saved ==
            [ticket EXCEPT
                !.status = status,
                !.assigned_to = IF assigned # NoUser THEN assigned ELSE @,
                !.resolved_at = IF status = RESOLVED THEN now ELSE 0,
                !.resolution =
                    IF status = RESOLVED
                    THEN (IF resolution_text # NoText THEN resolution_text ELSE @)
                    ELSE @,
                !.working_users = IF assigned # NoUser THEN @ \cup {assigned} ELSE @]
        writes ==
            << Eff("ticket.save", status, "", TRUE),
               Eff("TicketEvent", "status_change", status, TRUE) >>
            \o (IF assigned # NoUser THEN << Eff("working_users.add", assigned, "", TRUE) >>
                ELSE << >>)
            \o broadcast_ticket_event("ticket_status_changed", "status")
    IN  status_notified(saved, writes, _notify_whatsapp(cache, env), env)

\* A variant of _add_working_user that adds the user without recording the event.
_add_working_user_without_event(ticket, user) ==
    IF user = NoUser \/ ticket.status = RESOLVED THEN [ticket |-> ticket, trace |-> << >>]
    ELSE [ticket |-> [ticket EXCEPT !.working_users = @ \cup {user}],
          trace |-> << Eff("working_users.add", user, "", TRUE) >>]

\* _add_working_user: the ticket row it leaves and what it wrote.
_add_working_user(ticket, user) ==
    IF user = NoUser \/ ticket.status = RESOLVED THEN [ticket |-> ticket, trace |-> << >>]
    ELSE [ticket |-> [ticket EXCEPT !.working_users = @ \cup {user}],
          trace |-> << Eff("working_users.add", user, "", TRUE),
                       Eff("TicketEvent", "working_user", "", TRUE) >>]

\* ResolutionForm: a CharField (stripped, required) of at most 1000 characters.
ResolutionMaxLength == 1000
\* A ResolutionForm without the max_length.
ResolutionForm_without_max_length(resolution) == strip(resolution) # NoText

ResolutionForm_is_valid(resolution) ==
    strip(resolution) # NoText /\ strip(resolution).len <= ResolutionMaxLength

\* The branch _handle_ticket_action takes: whether it acts at all, whether it
\* calls _update_ticket_status and with which arguments, and whether it adds
\* the user to the working users afterwards (join_work).
Branch(acts, updates, status, assigned, resolution, pause_reason, joins) ==
    [acts |-> acts, updates |-> updates, status |-> status, assigned |-> assigned,
     resolution |-> resolution, pause_reason |-> pause_reason, joins |-> joins]

NoBranch == Branch(FALSE, FALSE, NEW_STATUS, NoUser, NoText, NoText, FALSE)

\* _handle_ticket_action with a reopen that puts the ticket back to new.
ticket_action_branch_reopens_as_new(req, ticket, is_ti_user) ==
    LET action == req.action
    IN  IF action = "" THEN NoBranch
        ELSE IF action = "resolve" /\ is_ti_user THEN
            IF ResolutionForm_is_valid(req.resolution)
            THEN Branch(TRUE, TRUE, RESOLVED, NoUser, strip(req.resolution), NoText, FALSE)
            ELSE NoBranch
        ELSE IF action = "in_progress" /\ is_ti_user THEN
            Branch(TRUE, TRUE, IN_PROGRESS, req.user, NoText, NoText, FALSE)
        ELSE IF action = "awaiting" /\ is_ti_user THEN
            IF strip(req.pause_reason) = NoText THEN NoBranch
            ELSE Branch(TRUE, TRUE, AWAITING, NoUser, NoText, strip(req.pause_reason), FALSE)
        ELSE IF action = "reopen" /\ ticket.status = RESOLVED THEN
            Branch(TRUE, TRUE, NEW_STATUS, NoUser, NoText, NoText, FALSE)
        ELSE IF action = "join_work" /\ is_ti_user THEN
            Branch(TRUE, ticket.status # IN_PROGRESS, IN_PROGRESS,
                   IF ticket.assigned_to # NoUser THEN ticket.assigned_to ELSE req.user,
                   NoText, NoText, TRUE)
        ELSE NoBranch

\* The if/elif chain of _handle_ticket_action.
ticket_action_branch(req, ticket, is_ti_user) ==
    LET action == req.action
    IN  IF action = "" THEN NoBranch
        ELSE IF action = "resolve" /\ is_ti_user THEN
            IF ResolutionForm_is_valid(req.resolution)
            THEN Branch(TRUE, TRUE, RESOLVED, NoUser, strip(req.resolution), NoText, FALSE)
            ELSE NoBranch
        ELSE IF action = "in_progress" /\ is_ti_user THEN
            Branch(TRUE, TRUE, IN_PROGRESS, req.user, NoText, NoText, FALSE)
        ELSE IF action = "awaiting" /\ is_ti_user THEN
            IF strip(req.pause_reason) = NoText THEN NoBranch
            ELSE Branch(TRUE, TRUE, AWAITING, NoUser, NoText, strip(req.pause_reason), FALSE)
        ELSE IF action = "reopen" /\ ticket.status = RESOLVED THEN
            Branch(TRUE, TRUE, IN_PROGRESS, NoUser, NoText, NoText, FALSE)
        ELSE IF action = "join_work" /\ is_ti_user THEN
            Branch(TRUE, ticket.status # IN_PROGRESS, IN_PROGRESS,
                   IF ticket.assigned_to # NoUser THEN ticket.assigned_to ELSE req.user,
                   NoText, NoText, TRUE)
        ELSE NoBranch

\* The end of a branch: join_work adds the user, then the redirect is returned
\* (an exception of _update_ticket_status ends the handler before both).
action_done(branch, req, updated) ==
    IF updated.raised # NoException THEN [responded |-> FALSE, step |-> updated]
    ELSE IF branch.joins
    THEN [responded |-> TRUE,
          step |-> Step(_add_working_user(updated.ticket, req.user).ticket, updated.cache,
                        updated.trace \o _add_working_user(updated.ticket, req.user).trace,
                        NoException)]
    ELSE [responded |-> TRUE, step |-> updated]

\* _handle_ticket_action: `responded` tells whether it returned a response (a
\* redirect) or None.
_handle_ticket_action(req, ticket, cache, is_ti_user, env) ==
    LET branch == ticket_action_branch(req, ticket, is_ti_user)
    IN  IF ~branch.acts THEN [responded |-> FALSE, step |-> Step(ticket, cache, << >>, NoException)]
        ELSE IF ~branch.updates
        THEN action_done(branch, req, Step(ticket, cache, << >>, NoException))
        ELSE action_done(branch, req,
                         _update_ticket_status(ticket, cache, branch.status, branch.assigned,
                             branch.resolution, branch.pause_reason, req.user, env))

\* TicketMessageForm: the text is required (stripped).
TicketMessageForm_is_valid(req) == strip(req.text) # NoText

\* The end of the message part: the attachments are stored after _notify_whatsapp.
message_notified(req, ticket, first, wa) ==
    IF wa.raised # NoException
    THEN Step(ticket, wa.cache, first \o wa.trace, wa.raised)
    ELSE Step(ticket, wa.cache,
              first \o wa.trace
                  \o [i \in 1..req.nfiles |-> Eff("TicketAttachment", "message", "", TRUE)],
              NoException)

\* The message part of ticket_detail (a POST no action answered).
post_message(req, ticket, cache, is_ti_user, env) ==
    LET is_internal == IF is_ti_user THEN req.internal_note ELSE FALSE
        kind == IF is_internal THEN "internal" ELSE "public"
        first ==
            << Eff("TicketMessage.save", req.user, kind, TRUE) >>
            \o broadcast_ticket_event("ticket_message", kind)
            \o (IF _is_ti(req.user) THEN _notify_ticket_email(ticket, kind, env)
                ELSE << >>)
    IN  message_notified(req, ticket, first, _notify_whatsapp(cache, env))

Answer(status, step) == [status |-> status, step |-> step]

\* ticket_detail after _handle_ticket_action (`acted`): its redirect, or the
\* message form.
after_action(req, ticket, cache, is_ti_user, env, acted) ==
    IF acted.step.raised # NoException THEN Answer(500, acted.step)
    ELSE IF acted.responded THEN Answer(302, acted.step)
    ELSE IF TicketMessageForm_is_valid(req)
    THEN (LET posted == post_message(req, ticket, cache, is_ti_user, env)
          IN  Answer(IF posted.raised # NoException THEN 500 ELSE 302, posted))
    ELSE Answer(200, Step(ticket, cache, << >>, NoException))

\* ticket_detail: the response status, and the step the handler made.
ticket_detail(req, cache, env) ==
    LET found == req.pk \in DOMAIN tickets /\ tickets[req.pk].exists
        ticket == IF found THEN tickets[req.pk] ELSE NoTicket
        nothing == Step(ticket, cache, << >>, NoException)
        is_ti_user == _is_ti(req.user)
    IN  IF ~found THEN Answer(404, nothing)
        ELSE IF ~(_is_ti(req.user) \/ ticket.created_by = req.user) THEN Answer(403, nothing)
        ELSE IF req.method # "POST" THEN Answer(200, nothing)
        ELSE after_action(req, ticket, cache, is_ti_user, env,
                          _handle_ticket_action(req, ticket, cache, is_ti_user, env))

\* The pk the database gives the next ticket; 0 when the bound is reached.
next_ticket_pk ==
    LET used(t) == tickets[t].exists \/ tickets[t].deleted
    IN  IF \A t \in DOMAIN tickets : used(t) THEN 0
        ELSE CHOOSE t \in DOMAIN tickets :
                 ~used(t) /\ \A u \in DOMAIN tickets : u < t => used(u)

\* TicketForm: title and description are required (stripped), the title holds at
\* most 140 characters, urgency and type are one of their choices.
TitleMaxLength == 140
TicketForm_is_valid(req) ==
    /\ req.method = "POST"
    /\ strip(req.title) # NoText /\ req.title.len <= TitleMaxLength
    /\ strip(req.description) # NoText
    /\ req.urgency \in TicketUrgency /\ req.ticket_type \in TicketType

\* The end of create_ticket: after _notify_whatsapp (`wa`), the redirect.
ticket_created(ticket, writes, wa) ==
    Answer(IF wa.raised # NoException THEN 500 ELSE 302,
           Step(ticket, wa.cache, writes \o wa.trace, wa.raised))

\* create_ticket
create_ticket(req, cache, env) ==
    LET ticket == [NoTicket EXCEPT !.exists = TRUE, !.created_by = req.user,
                                   !.urgency = req.urgency, !.ticket_type = req.ticket_type]
        writes ==
            << Eff("ticket.save", NEW_STATUS, "", TRUE) >>
            \o [i \in 1..req.nfiles |-> Eff("TicketAttachment", "ticket", "", TRUE)]
            \o << Eff("TicketEvent", "created", NEW_STATUS, TRUE) >>
            \o broadcast_ticket_event("ticket_created", "")
    IN  IF ~TicketForm_is_valid(req) THEN Answer(200, Step(NoTicket, cache, << >>, NoException))
        ELSE ticket_created(ticket, writes, _notify_whatsapp(cache, env))

\* A deleted auth.User row.
NoUserRow ==
    [exists |-> FALSE, is_staff |-> FALSE, is_superuser |-> FALSE, ti_group |-> FALSE,
     has_email |-> FALSE]

\* target.delete(): tickets the user created go with the user (CASCADE), tickets
\* assigned to the user lose the assignee (SET_NULL), the user leaves the
\* working users.
delete_user(target) ==
    [t \in DOMAIN tickets |->
        IF ~tickets[t].exists THEN tickets[t]
        ELSE IF tickets[t].created_by = target THEN [NoTicket EXCEPT !.deleted = TRUE]
        ELSE [tickets[t] EXCEPT
                 !.assigned_to = IF @ = target THEN NoUser ELSE @,
                 !.working_users = @ \ {target}]]

\* user.is_ti_member of manage_users: staff, or in the group TI.
is_ti_member(row) == row.is_staff \/ row.ti_group

\* A variant of promotable_users that looks at the group TI only.
promotable_users_outside_group(rows) ==
    { u \in Users : rows[u].exists /\ ~rows[u].ti_group }

\* promotable_users of manage_users: the users that are not is_ti_member.
promotable_users(rows) ==
    { u \in Users : rows[u].exists /\ ~is_ti_member(rows[u]) }

\* A variant of grant_ti that adds the group and leaves is_staff.
grant_ti_group_only(row) == [row EXCEPT !.ti_group = TRUE]

\* The branch grant_ti of manage_users: groups.add(TI), is_staff set when it
\* was not, save.
grant_ti(row) ==
    [row EXCEPT !.ti_group = TRUE, !.is_staff = IF ~@ THEN TRUE ELSE @]

\* What manage_users leaves and answers; promotable_users is the list of the
\* rendered page (a redirect renders nothing).
Managed(status, rows, ticket_rows, trace) ==
    [status |-> status, users |-> rows, tickets |-> ticket_rows, trace |-> trace,
     promotable_users |-> IF status = 200 THEN promotable_users(users) ELSE {}]

\* manage_users: the response status, the user and ticket rows it leaves, and
\* what it wrote.
manage_users(req) ==
    LET target == req.target
        same == Managed(302, users, tickets, << >>)
    IN  IF ~_is_ti(req.user) THEN Managed(403, users, tickets, << >>)
        ELSE IF req.method # "POST" THEN Managed(200, users, tickets, << >>)
        ELSE IF target \notin Users \/ ~users[target].exists
        THEN Managed(404, users, tickets, << >>)
        ELSE IF req.action = "reset_password"
        THEN Managed(302, users, tickets, << Eff("user.save", target, "password", TRUE) >>)
        ELSE IF req.action = "grant_ti"
        THEN Managed(302,
                     [users EXCEPT ![target] = grant_ti(@)],
                     tickets,
                     << Eff("groups.add", target, "TI", TRUE),
                        Eff("user.save", target, "is_staff", TRUE) >>)
        ELSE IF req.action = "revoke_ti" /\ target # req.user
        THEN Managed(302,
                     [users EXCEPT ![target] =
                         [@ EXCEPT !.ti_group = FALSE,
                                   !.is_staff = IF users[target].is_superuser THEN @ ELSE FALSE]],
                     tickets,
                     << Eff("groups.remove", target, "TI", TRUE),
                        Eff("user.save", target, "is_staff", TRUE) >>)
        ELSE IF req.action = "delete_user" /\ target # req.user
        THEN Managed(302, [users EXCEPT ![target] = NoUserRow], delete_user(target),
                     << Eff("user.delete", target, "", TRUE) >>)
        ELSE same

\* What a TI-only view leaves: the response status, the group cache, what it
\* did in order (writes, requests to WAPI), and the inventory and recipient rows.
Viewed(status, cache, trace, items, phones) ==
    [status |-> status, cache |-> cache, trace |-> trace, inventory |-> items,
     recipients |-> phones]

\* raise PermissionDenied
Denied(cache) == Viewed(403, cache, << >>, inventory, recipients)

\* A response of a view that wrote nothing and called nothing.
Plain(status, cache) == Viewed(status, cache, << >>, inventory, recipients)

\* The requests to WAPI among what a view did.
wapi_calls(urls) == [i \in 1..Len(urls) |-> Eff("wapi", urls[i], "", TRUE)]

\* InventoryStatus
InventoryStatus == {"in_use", "stock", "maintenance", "discarded"}

\* The fields of InventoryItemForm as a request posts them.
posted_item(req) ==
    [name |-> req.name, category |-> req.category, asset_tag |-> req.asset_tag,
     serial_number |-> req.serial_number, location |-> req.location,
     assigned_to |-> req.holder, status |-> req.item_status, notes |-> req.notes]

NoItem ==
    [name |-> NoText, category |-> NoText, asset_tag |-> NoText, serial_number |-> NoText,
     location |-> NoText, assigned_to |-> NoText, status |-> "", notes |-> NoText]

\* InventoryItemForm: every text is stripped; name and category are required
\* and bounded, the other texts are optional and bounded (notes is not bounded),
\* the status is required and one of the choices.
InventoryNameMaxLength == 140
InventoryCategoryMaxLength == 80
AssetTagMaxLength == 60
SerialNumberMaxLength == 80
LocationMaxLength == 120
AssignedToMaxLength == 120
InventoryItemForm_is_valid(req) ==
    /\ strip(req.name) # NoText /\ strip(req.name).len <= InventoryNameMaxLength
    /\ strip(req.category) # NoText /\ strip(req.category).len <= InventoryCategoryMaxLength
    /\ strip(req.asset_tag).len <= AssetTagMaxLength
    /\ strip(req.serial_number).len <= SerialNumberMaxLength
    /\ strip(req.location).len <= LocationMaxLength
    /\ strip(req.holder).len <= AssignedToMaxLength
    /\ req.item_status \in InventoryStatus

\* form.cleaned_data: the posted texts without the blanks around them.
cleaned_item(item) ==
    [item EXCEPT !.name = strip(@), !.category = strip(@), !.asset_tag = strip(@),
                 !.serial_number = strip(@), !.location = strip(@),
                 !.assigned_to = strip(@), !.notes = strip(@)]

\* A variant of inventory_management that saves the form as it is (commit=True)
\* and so leaves created_by empty.
inventory_management_without_creator(req, cache, env) ==
    IF ~_is_ti(req.user) THEN Denied(cache)
    ELSE IF req.method = "POST" /\ InventoryItemForm_is_valid(req)
    THEN Viewed(302, cache, << Eff("InventoryItem.save", "", req.user, TRUE) >>,
                Append(inventory, [created_by |-> NoUser] @@ cleaned_item(posted_item(req))),
                recipients)
    ELSE Plain(200, cache)

\* inventory_management
inventory_management(req, cache, env) ==
    IF ~_is_ti(req.user) THEN Denied(cache)
    ELSE IF req.method = "POST" /\ InventoryItemForm_is_valid(req)
    THEN Viewed(302, cache, << Eff("InventoryItem.save", "", req.user, TRUE) >>,
                Append(inventory, [created_by |-> req.user] @@ cleaned_item(posted_item(req))),
                recipients)
    ELSE Plain(200, cache)

\* ------------------------------------------------- the WhatsApp summary

\* A text, where its characters matter, is a sequence of characters.
NoChars == << >>
IsSpace(ch) == ch \in {" ", "\n", "\t"}

\* str.split(): the words of a text, the runs of characters between white space.
RECURSIVE split(_)
split(text) ==
    IF text = << >> THEN << >>
    ELSE IF IsSpace(Head(text)) THEN split(Tail(text))
    ELSE LET ends == { i \in 1..Len(text) : i = Len(text) \/ IsSpace(text[i + 1]) }
             n == CHOOSE i \in ends : \A j \in ends : i <= j
         IN  << SubSeq(text, 1, n) >> \o split(SubSeq(text, n + 1, Len(text)))

\* ' '.join(words)
RECURSIVE join(_)
join(words) ==
    IF words = << >> THEN << >>
    ELSE IF Len(words) = 1 THEN words[1]
    ELSE words[1] \o << " " >> \o join(Tail(words))

\* textwrap.shorten(text, width, placeholder='...'): the white space collapsed;
\* a text longer than width is cut after the last word that leaves room for the
\* placeholder.  (Words without hyphens, none longer than width - 3.)
shorten(text, width) ==
    LET words == split(text)
        joined == join(words)
        fits == { k \in 0..Len(words) : Len(join(SubSeq(words, 1, k))) + 3 <= width }
        kept == CHOOSE k \in fits : \A j \in fits : j <= k
    IN  IF Len(joined) <= width THEN joined
        ELSE join(SubSeq(words, 1, kept)) \o << ".", ".", "." >>

\* str.lower()
UpperCase == << "A", "B", "C", "D", "E", "F", "G", "H", "I", "J", "K", "L", "M", "N", "O", "P",
        "Q", "R", "S", "T", "U", "V", "W", "X", "Y", "Z" >>
LowerCase == << "a", "b", "c", "d", "e", "f", "g", "h", "i", "j", "k", "l", "m", "n", "o", "p",
        "q", "r", "s", "t", "u", "v", "w", "x", "y", "z" >>
lower(text) ==
    [i \in 1..Len(text) |->
        IF \E k \in 1..Len(UpperCase) : UpperCase[k] = text[i]
        THEN LowerCase[CHOOSE k \in 1..Len(UpperCase) : UpperCase[k] = text[i]]
        ELSE text[i]]

\* `sub in text`
Contains(text, sub) ==
    \E i \in 1..(Len(text) - Len(sub) + 1) : SubSeq(text, i, i + Len(sub) - 1) = sub

\* str.replace('\n', ' ')
replace_newlines(text) == [i \in 1..Len(text) |-> IF text[i] = "\n" THEN " " ELSE text[i]]

\* str.strip()
strip_chars(value) ==
    LET inked == { i \in 1..Len(value) : ~IsSpace(value[i]) }
    IN  IF inked = {} THEN << >>
        ELSE SubSeq(value, CHOOSE i \in inked : \A j \in inked : i <= j,
                           CHOOSE i \in inked : \A j \in inked : j <= i)

\* Ticket.get_status_display(): the label of the status, one piece of text.
get_status_display(status) ==
    CASE status = NEW_STATUS -> << "Novo" >>
      [] status = IN_PROGRESS -> << "Em andamento" >>
      [] status = AWAITING -> << "Aguardando resposta" >>
      [] status = RESOLVED -> << "Resolvido" >>

\* The summary: the prefix it starts with, and the characters after it.
Summary(prefix, body) == [prefix |-> prefix, body |-> body]
NewMessagePrefix == "Nova mensagem no chamado: "
UpdatedPrefix == "Atualizado: "
NewTicketPrefix == "Novo chamado: "

TitleWidth == 120
DescriptionWidth == 160
DetailWidth == 180
NovaMensagem == << "n", "o", "v", "a", " ", "m", "e", "n", "s", "a", "g", "e", "m" >>
Atualizado == << "a", "t", "u", "a", "l", "i", "z", "a", "d", "o" >>

\* Python's `a or b` on texts.
Or(a, b) == IF a # << >> THEN a ELSE b

\* A variant of _build_whatsapp_summary that looks for 'atualizado' first.
_build_whatsapp_summary_updated_first(ticket, event_label, extra_line) ==
    LET label == lower(strip_chars(event_label))
        title == shorten(strip_chars(ticket.title), TitleWidth)
        description == shorten(strip_chars(ticket.description), DescriptionWidth)
        detail == shorten(strip_chars(replace_newlines(extra_line)), DetailWidth)
    IN  IF Contains(label, Atualizado)
        THEN Summary(UpdatedPrefix, Or(detail, get_status_display(ticket.status)))
        ELSE IF Contains(label, NovaMensagem)
        THEN Summary(NewMessagePrefix, Or(detail, Or(description, title)))
        ELSE Summary(NewTicketPrefix,
                     title \o << " | Mensagem: " >> \o Or(description, << "-" >>))

\* _build_whatsapp_summary (None and '' are the empty text: `x or ''`).
_build_whatsapp_summary(ticket, event_label, extra_line) ==
    LET label == lower(strip_chars(event_label))
        title == shorten(strip_chars(ticket.title), TitleWidth)
        description == shorten(strip_chars(ticket.description), DescriptionWidth)
        detail == shorten(strip_chars(replace_newlines(extra_line)), DetailWidth)
    IN  IF Contains(label, NovaMensagem)
        THEN Summary(NewMessagePrefix, Or(detail, Or(description, title)))
        ELSE IF Contains(label, Atualizado)
        THEN Summary(UpdatedPrefix, Or(detail, get_status_display(ticket.status)))
        ELSE Summary(NewTicketPrefix,
                     title \o << " | Mensagem: " >> \o Or(description, << "-" >>))

\* A phone number as it is typed: a sequence of characters.
Digit == {"0", "1", "2", "3", "4", "5", "6", "7", "8", "9"}
NoPhone == << >>
StartsWith(digits, lead) == Len(digits) >= Len(lead) /\ SubSeq(digits, 1, Len(lead)) = lead

\* A variant of normalize_phone_number without the test of the country code.
normalize_phone_number_any_country(value) ==
    LET digits == SelectSeq(value, LAMBDA ch : ch \in Digit)
        no00 == IF StartsWith(digits, << "0", "0" >>) THEN SubSeq(digits, 3, Len(digits))
                ELSE digits
        full == IF Len(no00) \in {10, 11} THEN << "5", "5" >> \o no00 ELSE no00
    IN  IF value = << >> \/ digits = << >> THEN [raised |-> ValueError, digits |-> << >>]
        ELSE IF Len(full) \notin {12, 13} THEN [raised |-> ValueError, digits |-> << >>]
        ELSE [raised |-> NoException, digits |-> full]

\* normalize_phone_number: the digits it returns, or ValueError.
normalize_phone_number(value) ==
    LET digits == SelectSeq(value, LAMBDA ch : ch \in Digit)
        no00 == IF StartsWith(digits, << "0", "0" >>) THEN SubSeq(digits, 3, Len(digits))
                ELSE digits
        full == IF Len(no00) \in {10, 11} THEN << "5", "5" >> \o no00 ELSE no00
    IN  IF value = << >> \/ digits = << >> THEN [raised |-> ValueError, digits |-> << >>]
        ELSE IF Len(full) \notin {12, 13} THEN [raised |-> ValueError, digits |-> << >>]
        ELSE IF ~StartsWith(full, << "5", "5" >>) THEN [raised |-> ValueError, digits |-> << >>]
        ELSE [raised |-> NoException, digits |-> full]

\* WhatsAppRecipientForm.clean_phone_number: the stripped field, normalized.
clean_phone_number(value) == normalize_phone_number(strip_chars(value))

\* WhatsAppRecipient.clean: the model normalizes its phone_number again; it runs
\* on the cleaned form value (the form's _post_clean) and once more in save().
WhatsAppRecipient_clean(phone) == normalize_phone_number(phone)

\* The phone_number of the row that form.save() writes for a typed number.
saved_phone_number(value) ==
    WhatsAppRecipient_clean(WhatsAppRecipient_clean(clean_phone_number(value).digits).digits)

\* WhatsAppRecipientForm: the name is required, name and typed number are
\* bounded, the number must normalize, and the normalized number must not be
\* stored already (unique).
RecipientNameMaxLength == 120
PhoneMaxLength == 20
WhatsAppRecipientForm_is_valid(req) ==
    /\ strip(req.name) # NoText /\ req.name.len <= RecipientNameMaxLength
    /\ Len(strip_chars(req.phone)) <= PhoneMaxLength
    /\ clean_phone_number(req.phone).raised = NoException
    /\ saved_phone_number(req.phone).raised = NoException
    /\ saved_phone_number(req.phone).digits \notin recipients

\* The rest of whatsapp_config: the page shows the configured group, looked up
\* in the group list; RequestException is caught.
config_page(cache, looked) ==
    Viewed(IF looked.raised = NoException \/ "RequestException" \in looked.raised
           THEN 200 ELSE 500,
           cache, wapi_calls(looked.requested), inventory, recipients)

\* whatsapp_config
whatsapp_config(req, cache, env) ==
    IF ~_is_ti(req.user) THEN Denied(cache)
    ELSE IF req.method = "POST" /\ req.action = "delete_recipient"
    THEN (IF req.recipient_id \notin recipients THEN Plain(404, cache)
          ELSE Viewed(302, cache, << Eff("WhatsAppRecipient.delete", "", "", TRUE) >>,
                      inventory, recipients \ {req.recipient_id}))
    ELSE IF req.method = "POST" /\ WhatsAppRecipientForm_is_valid(req)
    THEN Viewed(302, cache, << Eff("WhatsAppRecipient.save", "", "", TRUE) >>,
                inventory, recipients \cup {saved_phone_number(req.phone).digits})
    ELSE config_page(cache, list_wapi_groups(env.groups))

\* A call of send_whatsapp_message(destination, text) among what a view did;
\* ok: it returned the provider's response.
send_call(to, text, returned) ==
    [op |-> "send_whatsapp_message", a |-> to, b |-> "", ok |-> returned, text |-> text]

\* The answer of a view that sent a message: the status it gives to what
\* send_whatsapp_message did (first: the except clause that comes first).
send_answer(sent, first, if_value_error, if_request_exception, if_sent, to, text) ==
    LET call == send_call(to, text, sent.returned)
        caught ==
            IF first \in sent.raised THEN first
            ELSE IF sent.raised # NoException THEN CHOOSE e \in sent.raised : TRUE
            ELSE "None"
        status ==
            CASE caught = "ValueError" -> if_value_error
              [] caught = "RequestException" -> if_request_exception
              [] OTHER -> if_sent
    IN  Viewed(status, sent.cache, << call >> \o wapi_calls(sent.requests), inventory,
               recipients)

\* A variant of whatsapp_notify_group that sends to the group the request names.
whatsapp_notify_group_to_posted_group(req, cache, env) ==
    IF ~_is_ti(req.user) THEN Denied(cache)
    ELSE IF req.method # "POST" THEN Plain(405, cache)
    ELSE IF strip(req.message) = NoText THEN Plain(302, cache)
    ELSE send_answer(send_whatsapp_message(cache, now,
                                           IF req.to # "" THEN req.to ELSE TI_CHAMADOS_GROUP_JID,
                                           env),
                     "ValueError", 302, 302, 302,
                     IF req.to # "" THEN req.to ELSE TI_CHAMADOS_GROUP_JID, strip(req.message))

\* whatsapp_notify_group
whatsapp_notify_group(req, cache, env) ==
    IF ~_is_ti(req.user) THEN Denied(cache)
    ELSE IF req.method # "POST" THEN Plain(405, cache)
    ELSE IF strip(req.message) = NoText THEN Plain(302, cache)
    ELSE send_answer(send_whatsapp_message(cache, now, TI_CHAMADOS_GROUP_JID, env),
                     "ValueError", 302, 302, 302, TI_CHAMADOS_GROUP_JID, strip(req.message))

\* whatsapp_send
whatsapp_send(req, cache, env) ==
    IF ~_is_ti(req.user) THEN Denied(cache)
    ELSE IF req.method # "POST" THEN Plain(405, cache)
    ELSE IF ~req.json_ok THEN Plain(400, cache)
    ELSE IF req.to = "" \/ req.message.len = 0 THEN Plain(400, cache)
    ELSE send_answer(send_whatsapp_message(cache, now, req.to, env),
                     "ValueError", 400, 502, 200, req.to, req.message)

\* whatsapp_send_ti_chamados
whatsapp_send_ti_chamados(req, cache, env) ==
    IF ~_is_ti(req.user) THEN Denied(cache)
    ELSE IF req.method # "POST" THEN Plain(405, cache)
    ELSE IF ~req.json_ok THEN Plain(400, cache)
    ELSE IF req.message.len = 0 THEN Plain(400, cache)
    ELSE send_answer(send_whatsapp_message(cache, now, TI_CHAMADOS_GROUP_JID, env),
                     "RequestException", 400, 502, 200, TI_CHAMADOS_GROUP_JID, req.message)

\* The answer of whatsapp_groups to what list_wapi_groups did.
groups_answer(cache, looked) ==
    Viewed(IF "RequestException" \in looked.raised THEN 502
           ELSE IF looked.raised # NoException THEN 500 ELSE 200,
           cache, wapi_calls(looked.requested), inventory, recipients)

\* whatsapp_groups
whatsapp_groups(req, cache, env) ==
    IF ~_is_ti(req.user) THEN Denied(cache)
    ELSE IF req.method # "GET" THEN Plain(405, cache)
    ELSE groups_answer(cache, list_wapi_groups(env.groups))

\* finished_tickets: reads the resolved tickets.
finished_tickets(req, cache, env) ==
    IF ~_is_ti(req.user) THEN Denied(cache) ELSE Plain(200, cache)

\* related_tickets: get_object_or_404 comes first.
related_tickets(req, cache, env) ==
    IF ~(req.pk \in DOMAIN tickets /\ tickets[req.pk].exists) THEN Plain(404, cache)
    ELSE IF ~_is_ti(req.user) THEN Denied(cache)
    ELSE Plain(200, cache)

\* ti_reports: reads the tickets and their events.
ti_reports(req, cache, env) ==
    IF ~_is_ti(req.user) THEN Denied(cache) ELSE Plain(200, cache)

\* -------------------------------------------------------- tickets/urls.py

\* The TI-only views but manage_users, by the name of their URL pattern.
urlpatterns(view, req, cache, env) ==
    CASE view = "inventory_management" -> inventory_management(req, cache, env)
      [] view = "whatsapp_config" -> whatsapp_config(req, cache, env)
      [] view = "whatsapp_notify_group" -> whatsapp_notify_group(req, cache, env)
      [] view = "whatsapp_send" -> whatsapp_send(req, cache, env)
      [] view = "whatsapp_send_ti_chamados" -> whatsapp_send_ti_chamados(req, cache, env)
      [] view = "whatsapp_groups" -> whatsapp_groups(req, cache, env)
      [] view = "finished_tickets" -> finished_tickets(req, cache, env)
      [] view = "ticket_related" -> related_tickets(req, cache, env)
      [] view = "ti_reports" -> ti_reports(req, cache, env)

\* ----------------------------------------------------- tickets/consumers.py

Channels == {"c1", "c2"}
Anonymous == "AnonymousUser"

\* user.is_authenticated
is_authenticated(user) == user # Anonymous

\* TicketConsumer._is_ti_user
_is_ti_user(user) == users[user].ti_group \/ users[user].is_staff

\* connect without the test of is_authenticated.
connect_anyone(channel_name, user, groups) ==
    LET is_ti == IF user \in Users THEN _is_ti_user(user) ELSE FALSE
    IN  [state |-> "open",
         groups |-> [tickets |-> groups.tickets \cup {channel_name},
                     ti |-> IF is_ti THEN groups.ti \cup {channel_name} ELSE groups.ti]]

\* TicketConsumer.connect: the state of the socket (open: accepted; rejected:
\* closed by the server) and the groups it leaves.
connect(channel_name, user, groups) ==
    IF ~is_authenticated(user) THEN [state |-> "rejected", groups |-> groups]
    ELSE [state |-> "open",
          groups |-> [tickets |-> groups.tickets \cup {channel_name},
                      ti |-> IF _is_ti_user(user) THEN groups.ti \cup {channel_name}
                             ELSE groups.ti]]

\* TicketConsumer.disconnect: the groups it leaves.
disconnect(channel_name, groups) ==
    [tickets |-> groups.tickets \ {channel_name}, ti |-> groups.ti \ {channel_name}]

\* ------------------------------------------------------------ wapi actions

wapiVars == << now, _group_cache, lastLookup, wapiCall >>
listVars == << listIn, listOut, summaryIn, summaryOut, report, sendOut, updating >>
dbVars == << users, tickets, lastReq >>
wsVars == << sessions, channel_groups >>
adminVars == << inventory, recipients >>

\* time.time() moves on.
Tick ==
    /\ now + TimeStep <= MaxTime
    /\ now' = now + TimeStep
    /\ UNCHANGED << _group_cache, lastLookup, wapiCall, listVars, dbVars, wsVars, adminVars >>

\* One call of ensure_group_exists(group_id).
EnsureGroupExists(group_id, answers) ==
    LET r == ensure_group_exists(_group_cache, group_id, now, answers)
        looked == r.requested # << >> /\ r.decided
    IN  /\ _group_cache' = r.cache
        /\ lastLookup' = IF looked THEN [has |-> TRUE, groups |-> r.used, t |-> now]
                          ELSE lastLookup
        /\ wapiCall' = [made |-> TRUE, group_id |-> group_id, at |-> now,
                        before |-> lastLookup, cacheBefore |-> _group_cache,
                        requested |-> r.requested,
                        raised |-> r.raised, msg |-> r.msg,
                        decided |-> r.decided, used |-> r.used]
        /\ UNCHANGED << now, listVars, dbVars, wsVars, adminVars >>

\* _update_ticket_status write by write.  The view takes no transaction of its
\* own: ticket.save(), TicketEvent.objects.create() and working_users.add() are
\* committed one by one, each request works on the copy of the row it loaded,
\* and the writes of two requests are applied in any order.
Slots == {1, 2}
MaxUpdates == 3

IdleUpdate == [pc |-> "idle", user |-> NoUser, pk |-> 0, branch |-> NoBranch, copy |-> NoTicket]

\* slots: the requests that are running; events: the status of the events
\* recorded for the ticket that carry one, the latest last; started: the
\* requests so far.
NoUpdating == [slots |-> [s \in Slots |-> IdleUpdate], events |-> << >>, started |-> 0]

\* ticket_detail loads the row and _handle_ticket_action takes the branch of the
\* posted action, for the row as it was loaded.
UpdateLoad(s, req) ==
    /\ updating.slots[s].pc = "idle" /\ updating.started < MaxUpdates
    /\ users[req.user].exists
    /\ req.pk \in DOMAIN tickets /\ tickets[req.pk].exists
    /\ _is_ti(req.user) \/ tickets[req.pk].created_by = req.user
    /\ \E branch \in {ticket_action_branch(req, tickets[req.pk], _is_ti(req.user))} :
        /\ branch.acts /\ branch.updates
        /\ updating' = [updating EXCEPT
                           !.slots[s] = [pc |-> "loaded", user |-> req.user, pk |-> req.pk,
                                         branch |-> branch, copy |-> tickets[req.pk]],
                           !.started = @ + 1]
    /\ UNCHANGED << listIn, listOut, summaryIn, summaryOut, report, sendOut, wapiVars, dbVars,
                    wsVars, adminVars >>

\* ticket.save(): every column of the row is written from the copy (the
\* working users are rows of another table).
UpdateSave(s, env) ==
    /\ updating.slots[s].pc = "loaded"
    /\ \E u \in {updating.slots[s]} :
       \E r \in {_update_ticket_status(u.copy, _group_cache, u.branch.status, u.branch.assigned,
                                       u.branch.resolution, u.branch.pause_reason, u.user, env)} :
        /\ tickets' = [tickets EXCEPT ![u.pk] =
                          [r.ticket EXCEPT !.working_users = tickets[u.pk].working_users]]
        /\ updating' = [updating EXCEPT !.slots[s].pc = "saved"]
    /\ UNCHANGED << listIn, listOut, summaryIn, summaryOut, report, sendOut, wapiVars, users,
                    lastReq, wsVars, adminVars >>

\* TicketEvent.objects.create(event_type=STATUS, status=status)
UpdateRecordEvent(s) ==
    /\ updating.slots[s].pc = "saved"
    /\ updating' = [updating EXCEPT
                       !.events = Append(@, updating.slots[s].branch.status),
                       !.slots[s].pc = "recorded"]
    /\ UNCHANGED << listIn, listOut, summaryIn, summaryOut, report, sendOut, wapiVars, dbVars,
                    wsVars, adminVars >>

\* The rest of the request: working_users.add(assigned), the broadcast and the
\* notifications, the working user of join_work, the redirect.
UpdateFinish(s, env) ==
    /\ updating.slots[s].pc = "recorded"
    /\ \E u \in {updating.slots[s]} :
       \E r \in {_update_ticket_status(u.copy, _group_cache, u.branch.status, u.branch.assigned,
                                       u.branch.resolution, u.branch.pause_reason, u.user, env)} :
        /\ _group_cache' = r.cache
        /\ tickets' = [tickets EXCEPT ![u.pk].working_users =
                          @ \cup (IF u.branch.assigned # NoUser THEN {u.branch.assigned} ELSE {})
                            \cup (IF u.branch.joins /\ r.raised = NoException
                                  THEN _add_working_user(r.ticket, u.user).ticket.working_users
                                           \ r.ticket.working_users
                                  ELSE {})]
        /\ updating' = [updating EXCEPT !.slots[s] = IdleUpdate]
    /\ UNCHANGED << now, lastLookup, wapiCall, listIn, listOut, summaryIn, summaryOut, report,
                    sendOut, users, lastReq, wsVars, adminVars >>

NoSendOut ==
    [done |-> FALSE, destination |-> "", at |-> 0, cacheBefore |-> EmptyCache,
     groups |-> [i \in 1..4 |-> TransportError], send |-> SendTransportError,
     cache |-> EmptyCache, requests |-> << >>, raised |-> NoException, returned |-> FALSE]

\* One call of send_whatsapp_message(destination, message), with what the group
\* endpoints and the send endpoint answer to it.
SendWhatsappMessage(destination, env) ==
    /\ lastReq.view = "" /\ ~sendOut.done
    /\ \E r \in {send_whatsapp_message(_group_cache, now, destination, env)} :
        /\ _group_cache' = r.cache
        /\ sendOut' = [done |-> TRUE, destination |-> destination, at |-> now,
                       cacheBefore |-> _group_cache, groups |-> env.groups,
                       send |-> env.send, cache |-> r.cache, requests |-> r.requests,
                       raised |-> r.raised, returned |-> r.returned]
        /\ UNCHANGED << now, lastLookup, wapiCall, listIn, listOut, summaryIn, summaryOut,
                        report, updating, dbVars, wsVars, adminVars >>

\* The caller of send_whatsapp_message goes on.
SendReturned ==
    /\ sendOut.done
    /\ sendOut' = NoSendOut
    /\ UNCHANGED << listIn, listOut, summaryIn, summaryOut, report, updating, wapiVars, dbVars, wsVars,
                    adminVars >>

NoListOut == [done |-> FALSE, requested |-> << >>, raised |-> NoException, value |-> << >>]

\* One call of list_wapi_groups(), as whatsapp_groups makes it.
ListWapiGroups ==
    /\ ~listOut.done
    /\ listOut' = [done |-> TRUE] @@ list_wapi_groups(listIn)
    /\ UNCHANGED << listIn, summaryIn, summaryOut, report, sendOut, updating, wapiVars, dbVars, wsVars,
                    adminVars >>

\* ------------------------------------------------------------ the requests

\* The texts a form field is filled with: nothing, blanks, a text, a text that
\* is too long for every field.
SomeText == Txt(18, FALSE)
Blanks == Txt(3, TRUE)
LongText == Txt(1001, FALSE)
\* A text typed with two blanks around it.
PaddedText == [len |-> 20, blank |-> FALSE, pad |-> 2]

Actions == {"", "resolve", "in_progress", "awaiting", "reopen", "join_work", "close"}

Request(user, method, pk, action, resolution, pause_reason, text, internal_note, nfiles) ==
    [user |-> user, method |-> method, pk |-> pk, action |-> action,
     resolution |-> resolution, pause_reason |-> pause_reason, text |-> text,
     internal_note |-> internal_note, nfiles |-> nfiles]

Messages ==
    { << SomeText, FALSE, 0 >>, << SomeText, TRUE, 0 >>, << SomeText, FALSE, 1 >> }

\* The requests to ticket_detail: a GET; a POST of an action with the fields the
\* action reads; a POST of a message, alone or with an action.
TicketRequests ==
    { Request(u, "GET", pk, "", NoText, NoText, NoText, FALSE, 0) :
        u \in Users, pk \in RequestPks }
    \cup
    { Request(u, "POST", pk, a, NoText, NoText, NoText, FALSE, 0) :
        u \in Users, pk \in RequestPks, a \in Actions }
    \cup
    { Request(u, "POST", pk, "resolve", r, NoText, NoText, FALSE, 0) :
        u \in Users, pk \in TicketIds, r \in {SomeText, LongText, Blanks} }
    \cup
    { Request(u, "POST", pk, "awaiting", NoText, p, NoText, FALSE, 0) :
        u \in Users, pk \in TicketIds, p \in {SomeText, Blanks} }
    \cup
    { Request(u, "POST", pk, a, NoText, NoText, m[1], m[2], m[3]) :
        u \in Users, pk \in TicketIds, a \in {"", "resolve", "in_progress"}, m \in Messages }

\* The requests to create_ticket.
CreateRequests ==
    { [user |-> u, method |-> m, title |-> t, description |-> d, nfiles |-> n,
       urgency |-> "normal", ticket_type |-> "incident"] :
        u \in Users, m \in {"GET", "POST"}, t \in {NoText, SomeText},
        d \in {SomeText}, n \in {0, 1} }

\* What the outside answers during one request: the group endpoints, the send
\* endpoint, the mail server.
Env(groups, send, mail_ok) == [groups |-> groups, send |-> send, mail_ok |-> mail_ok]

GroupsWith(ids) ==
    [i \in 1..4 |->
        Response(200, Payload("bare", "list",
            [k \in 1..Len(ids) |-> [isdict |-> TRUE, key |-> "id", value |-> ids[k]]]))]

SendOk == SendResponse(200, TRUE, SendResult("success", "", "", ""))

NotifyEnvs ==
    { \* everything works
      Env(GroupsWith(<< TI_CHAMADOS_GROUP_JID >>), SendOk, TRUE),
      \* the mail server fails
      Env(GroupsWith(<< TI_CHAMADOS_GROUP_JID >>), SendOk, FALSE),
      \* WAPI is unreachable
      Env([i \in 1..4 |-> TransportError], SendTransportError, TRUE),
      \* the group list cannot be read
      Env([i \in 1..4 |-> Response(200, NotJson)], SendOk, TRUE),
      \* the configured group is not in the list
      Env(GroupsWith(<< OtherGroupJid >>), SendOk, TRUE),
      \* the send endpoint answers with an HTTP error
      Env(GroupsWith(<< TI_CHAMADOS_GROUP_JID >>), SendResponse(500, FALSE, NoSendResult), TRUE),
      \* the send endpoint answers with an unexpected status
      Env(GroupsWith(<< TI_CHAMADOS_GROUP_JID >>),
          SendResponse(200, TRUE, SendResult("error", "", "", "")), TRUE) }

\* One call of _build_whatsapp_summary.
NoSummaryIn ==
    [title |-> NoChars, description |-> NoChars, status |-> NEW_STATUS,
     event_label |-> NoChars, extra_line |-> NoChars]
NoSummaryOut == [done |-> FALSE, prefix |-> "", body |-> NoChars]

BuildWhatsappSummary ==
    /\ ~summaryOut.done
    /\ summaryOut' =
          [done |-> TRUE] @@
          _build_whatsapp_summary(summaryIn, summaryIn.event_label, summaryIn.extra_line)
    /\ UNCHANGED << listIn, listOut, summaryIn, report, sendOut, updating, wapiVars, dbVars, wsVars,
                    adminVars >>

\* ---------------------------------------------------------- ticket actions

NoRequest ==
    [view |-> "", user |-> NoUser, is_ti |-> FALSE, pk |-> 0, method |-> "", action |-> "",
     target |-> NoUser,
     nfiles |-> 0, status |-> 0, before |-> NoTicket, trace |-> << >>,
     raised |-> NoException, promotable_users |-> {}, phone |-> NoPhone, to |-> "", message |-> NoText,
                           send |-> SendTransportError,
                           resolution |-> NoText, pause_reason |-> NoText,
                           item |-> NoItem,
     delivered |-> [c \in Channels |-> << >>]]

\* No request is being answered: the requests are handled one after the other.
Idle == lastReq.view = ""

\* The messages of one request sent to the group 'tickets'.
GroupSends(trace) == SelectSeq(trace, LAMBDA e : e.op = "group_send" /\ e.a = "tickets")

\* channel_layer.group_send: every channel of the group runs ticket_update,
\* which sends the event down its socket (send_json).
group_send(trace) ==
    [c \in Channels |-> IF c \in channel_groups.tickets THEN GroupSends(trace) ELSE << >>]

\* One request to create_ticket.
CreateTicket(req, env) ==
    /\ Idle /\ users[req.user].exists
    /\ next_ticket_pk # 0
    /\ \E r \in {create_ticket(req, _group_cache, env)} :
        LET pk == next_ticket_pk
            created == r.step.ticket.exists
        IN  /\ tickets' = IF created THEN [tickets EXCEPT ![pk] = r.step.ticket] ELSE tickets
            /\ _group_cache' = r.step.cache
            /\ lastReq' = [view |-> "create_ticket", user |-> req.user,
                           is_ti |-> _is_ti(req.user),
                           pk |-> IF created THEN pk ELSE 0, method |-> req.method,
                           action |-> "", target |-> NoUser, nfiles |-> req.nfiles, status |-> r.status,
                           before |-> NoTicket,
                           trace |-> r.step.trace, raised |-> r.step.raised,
                           promotable_users |-> {}, phone |-> NoPhone, to |-> "", message |-> NoText,
                           send |-> SendTransportError,
                           resolution |-> NoText, pause_reason |-> NoText,
                           item |-> NoItem,
                           delivered |-> group_send(r.step.trace)]
    /\ UNCHANGED << now, lastLookup, wapiCall, listVars, users, wsVars, adminVars >>

\* One request to ticket_detail.
TicketDetail(req, env) ==
    /\ Idle /\ users[req.user].exists
    /\ \E r \in {ticket_detail(req, _group_cache, env)} :
        LET found == req.pk \in DOMAIN tickets /\ tickets[req.pk].exists
        IN  /\ tickets' = IF found THEN [tickets EXCEPT ![req.pk] = r.step.ticket] ELSE tickets
            /\ _group_cache' = r.step.cache
            /\ lastReq' = [view |-> "ticket_detail", user |-> req.user,
                           is_ti |-> _is_ti(req.user),
                           pk |-> req.pk, method |-> req.method, action |-> req.action,
                           target |-> NoUser,
                           nfiles |-> req.nfiles, status |-> r.status,
                           before |-> IF found THEN tickets[req.pk] ELSE NoTicket,
                           trace |-> r.step.trace, raised |-> r.step.raised,
                           promotable_users |-> {}, phone |-> NoPhone, to |-> "", message |-> NoText,
                           send |-> SendTransportError,
                           resolution |-> req.resolution, pause_reason |-> req.pause_reason,
                           item |-> NoItem,
                           delivered |-> group_send(r.step.trace)]
    /\ UNCHANGED << now, lastLookup, wapiCall, listVars, users, wsVars, adminVars >>

\* One request to manage_users.
ManageUsers(req) ==
    /\ Idle /\ users[req.user].exists
    /\ \E r \in {manage_users(req)} :
        /\ users' = r.users
        /\ tickets' = r.tickets
        /\ lastReq' = [NoRequest EXCEPT
                           !.view = "manage_users", !.user = req.user,
                           !.is_ti = _is_ti(req.user), !.method = req.method,
                           !.action = req.action, !.target = req.target,
                           !.status = r.status, !.trace = r.trace,
                           !.promotable_users = r.promotable_users]
    /\ UNCHANGED << wapiVars, listVars, wsVars, adminVars >>

\* One request to a TI-only view other than manage_users.
TIOnlyView(view, req, env) ==
    /\ Idle /\ users[req.user].exists
    /\ \E r \in {urlpatterns(view, req, _group_cache, env)} :
        /\ Len(r.inventory) <= MaxItems
        /\ _group_cache' = r.cache
        /\ inventory' = r.inventory
        /\ recipients' = r.recipients
        /\ lastReq' = [NoRequest EXCEPT
                           !.view = view, !.user = req.user, !.is_ti = _is_ti(req.user),
                           !.pk = req.pk, !.method = req.method, !.action = req.action,
                           !.phone = req.phone, !.to = req.to, !.message = req.message,
                           !.item = posted_item(req), !.send = env.send,
                           !.status = r.status, !.trace = r.trace]
    /\ UNCHANGED << now, lastLookup, wapiCall, listVars, users, tickets, wsVars >>

\* ti_reports, query by query.  The view takes no transaction of its own: each
\* query reads the rows as they are when it runs, and the requests of other
\* users are answered in between.
NoFilters == [status |-> "", urgency |-> "", ticket_type |-> ""]
NoReport ==
    [pc |-> "idle", user |-> NoUser, filters |-> NoFilters,
     status_counts |-> [k \in TicketStatus |-> 0],
     urgency_counts |-> [k \in TicketUrgency |-> 0],
     type_counts |-> [k \in TicketType |-> 0],
     total_tickets |-> 0, resolved_count |-> 0, pending_count |-> 0]

\* queryset: the tickets the filters keep (an empty filter keeps every ticket).
queryset(filters) ==
    { t \in DOMAIN tickets :
        /\ tickets[t].exists
        /\ filters.status # "" => tickets[t].status = filters.status
        /\ filters.urgency # "" => tickets[t].urgency = filters.urgency
        /\ filters.ticket_type # "" => tickets[t].ticket_type = filters.ticket_type }

\* queryset.values(field).annotate(count=Count('id')) over the keys of the labels.
count_by(field, keys, filters) ==
    [k \in keys |-> Cardinality({ t \in queryset(filters) : tickets[t][field] = k })]

\* The request arrives: _is_ti, the filters are read, the queryset is built (no
\* query yet).
ReportBegin(user, filters) ==
    /\ report.pc \in {"idle", "done"}
    /\ users[user].exists /\ _is_ti(user)
    /\ report' = [NoReport EXCEPT !.pc = "status", !.user = user, !.filters = filters]
    /\ UNCHANGED << listIn, listOut, summaryIn, summaryOut, sendOut, updating, wapiVars, dbVars, wsVars,
                    adminVars >>

\* status_counts
ReportStatusCounts ==
    /\ report.pc = "status"
    /\ report' = [report EXCEPT
                     !.pc = "urgency",
                     !.status_counts = count_by("status", TicketStatus, report.filters)]
    /\ UNCHANGED << listIn, listOut, summaryIn, summaryOut, sendOut, updating, wapiVars, dbVars, wsVars,
                    adminVars >>

\* urgency_counts
ReportUrgencyCounts ==
    /\ report.pc = "urgency"
    /\ report' = [report EXCEPT
                     !.pc = "type",
                     !.urgency_counts = count_by("urgency", TicketUrgency, report.filters)]
    /\ UNCHANGED << listIn, listOut, summaryIn, summaryOut, sendOut, updating, wapiVars, dbVars, wsVars,
                    adminVars >>

\* type_counts (the monthly and the event queries that follow read other
\* columns and are left out)
ReportTypeCounts ==
    /\ report.pc = "type"
    /\ report' = [report EXCEPT
                     !.pc = "total",
                     !.type_counts = count_by("ticket_type", TicketType, report.filters)]
    /\ UNCHANGED << listIn, listOut, summaryIn, summaryOut, sendOut, updating, wapiVars, dbVars, wsVars,
                    adminVars >>

\* total_tickets = queryset.count(), resolved_count, pending_count, and the page.
ReportTotal ==
    /\ report.pc = "total" /\ Idle
    /\ \E total \in {Cardinality(queryset(report.filters))} :
          report' = [report EXCEPT
                        !.pc = "done",
                        !.total_tickets = total,
                        !.resolved_count = report.status_counts[RESOLVED],
                        !.pending_count = total - report.status_counts[RESOLVED]]
    /\ lastReq' = [NoRequest EXCEPT
                      !.view = "ti_reports", !.user = report.user, !.is_ti = TRUE,
                      !.method = "GET", !.status = 200]
    /\ UNCHANGED << listIn, listOut, summaryIn, summaryOut, sendOut, updating, wapiVars, users, tickets,
                    wsVars, adminVars >>

\* A browser opens a WebSocket: the handshake runs TicketConsumer.connect with
\* the user of the session cookie.
Connect(c, user) ==
    /\ Idle
    /\ sessions[c].state = "none"
    /\ user \in Users => users[user].exists
    /\ \E r \in {connect(c, user, channel_groups)} :
        /\ sessions' = [sessions EXCEPT ![c] =
               [state |-> r.state, user |-> user,
                had_ti |-> user \in Users /\ (users[user].ti_group \/ users[user].is_staff)]]
        /\ channel_groups' = r.groups
    /\ UNCHANGED << wapiVars, listVars, dbVars, adminVars >>

\* A WebSocket ends: TicketConsumer.disconnect runs.
Disconnect(c) ==
    /\ Idle
    /\ sessions[c].state \in {"open", "rejected"}
    /\ sessions' = [sessions EXCEPT ![c] = [@ EXCEPT !.state = "closed"]]
    /\ channel_groups' = disconnect(c, channel_groups)
    /\ UNCHANGED << wapiVars, listVars, dbVars, adminVars >>

\* The response is returned; the next request can be handled.
Respond ==
    /\ ~Idle
    /\ lastReq' = NoRequest
    /\ UNCHANGED << wapiVars, listVars, users, tickets, wsVars, adminVars >>

vars ==
    << now, _group_cache, lastLookup, wapiCall, listIn, listOut, summaryIn, summaryOut,
       report, sendOut, updating, users, tickets,
       sessions, channel_groups, inventory, recipients, lastReq >>

\* The users: a superuser of the TI group, a member of the TI group without an
\* e-mail address, an employee.
InitUsers ==
    [u \in Users |->
        [exists |-> TRUE, is_staff |-> u = "ti1", is_superuser |-> u = "ti1",
         ti_group |-> u \in {"ti1", "ti2"}, has_email |-> u \in {"ti1", "emp1"}]]

NoSession == [state |-> "none", user |-> NoUser, had_ti |-> FALSE]
InitSessions == [c \in Channels |-> NoSession]
InitGroups == [tickets |-> {}, ti |-> {}]


NoLookup == [has |-> FALSE, groups |-> << >>, t |-> 0]

NoWapiCall ==
    [made |-> FALSE, group_id |-> "", at |-> 0, before |-> NoLookup,
     cacheBefore |-> EmptyCache, requested |-> << >>,
     raised |-> NoException, msg |-> "", decided |-> FALSE, used |-> << >>]

\* The group cache over time.
InitCache ==
    /\ now = StartTime
    /\ _group_cache = EmptyCache
    /\ lastLookup = NoLookup
    /\ wapiCall = NoWapiCall
    /\ listIn = [i \in 1..4 |-> TransportError]
    /\ listOut = NoListOut
    /\ summaryIn = NoSummaryIn
    /\ summaryOut = NoSummaryOut
    /\ report = NoReport
    /\ sendOut = NoSendOut
    /\ updating = NoUpdating
    /\ users = InitUsers
    /\ tickets = [t \in TicketIds |-> NoTicket]
    /\ sessions = InitSessions
    /\ channel_groups = InitGroups
    /\ inventory = << >>
    /\ recipients = {}
    /\ lastReq = NoRequest

NextCache ==
    \/ Tick
    \/ \E g \in GroupIds, a \in EnsureAnswers : EnsureGroupExists(g, a)

SpecCache == InitCache /\ [][NextCache]_vars

\* list_wapi_groups on every combination of answers.
InitList ==
    /\ now = StartTime
    /\ _group_cache = EmptyCache
    /\ lastLookup = NoLookup
    /\ wapiCall = NoWapiCall
    /\ listIn \in GroupListAnswers
    /\ listOut = NoListOut
    /\ summaryIn = NoSummaryIn
    /\ summaryOut = NoSummaryOut
    /\ report = NoReport
    /\ sendOut = NoSendOut
    /\ updating = NoUpdating
    /\ users = InitUsers
    /\ tickets = [t \in TicketIds |-> NoTicket]
    /\ sessions = InitSessions
    /\ channel_groups = InitGroups
    /\ inventory = << >>
    /\ recipients = {}
    /\ lastReq = NoRequest

NextList == ListWapiGroups

SpecList == InitList /\ [][NextList]_vars

\* The tickets: no ticket yet, the group cache empty.
Init ==
    /\ now = StartTime
    /\ _group_cache = EmptyCache
    /\ lastLookup = NoLookup
    /\ wapiCall = NoWapiCall
    /\ listIn = [i \in 1..4 |-> TransportError]
    /\ listOut = NoListOut
    /\ summaryIn = NoSummaryIn
    /\ summaryOut = NoSummaryOut
    /\ report = NoReport
    /\ sendOut = NoSendOut
    /\ updating = NoUpdating
    /\ users = InitUsers
    /\ tickets = [t \in TicketIds |-> NoTicket]
    /\ sessions = InitSessions
    /\ channel_groups = InitGroups
    /\ inventory = << >>
    /\ recipients = {}
    /\ lastReq = NoRequest

Next ==
    \/ \E q \in CreateRequests, e \in NotifyEnvs : CreateTicket(q, e)
    \/ \E q \in TicketRequests, e \in NotifyEnvs : TicketDetail(q, e)
    \/ Respond

Spec == Init /\ [][Next]_vars

\* The requests of the sessions' specification: tickets are created, moved and
\* written to while everything outside works.
AllOk == Env(GroupsWith(<< TI_CHAMADOS_GROUP_JID >>), SendOk, TRUE)

WsCreateRequests ==
    { [user |-> u, method |-> "POST", title |-> SomeText, description |-> SomeText,
       nfiles |-> 0, urgency |-> "normal", ticket_type |-> "incident"] : u \in {"emp1", "ti2"} }

WsTicketRequests ==
    { Request(u, "POST", pk, "in_progress", NoText, NoText, NoText, FALSE, 0) :
        u \in Users, pk \in TicketIds }
    \cup
    { Request(u, "POST", pk, "", NoText, NoText, SomeText, i, 0) :
        u \in Users, pk \in TicketIds, i \in BOOLEAN }

ManageRequests ==
    { [user |-> u, method |-> "POST", action |-> a, target |-> t] :
        u \in {"ti1", "emp1"}, a \in {"grant_ti", "revoke_ti", "delete_user"},
        t \in {"ti2", "emp1"} }

InitWS ==
    /\ now = StartTime
    /\ _group_cache = EmptyCache
    /\ lastLookup = NoLookup
    /\ wapiCall = NoWapiCall
    /\ listIn = [i \in 1..4 |-> TransportError]
    /\ listOut = NoListOut
    /\ summaryIn = NoSummaryIn
    /\ summaryOut = NoSummaryOut
    /\ report = NoReport
    /\ sendOut = NoSendOut
    /\ updating = NoUpdating
    /\ users = InitUsers
    /\ tickets = [t \in TicketIds |-> NoTicket]
    /\ sessions = InitSessions
    /\ channel_groups = InitGroups
    /\ inventory = << >>
    /\ recipients = {}
    /\ lastReq = NoRequest

NextWS ==
    \/ \E c \in Channels, u \in Users \cup {Anonymous} : Connect(c, u)
    \/ \E c \in Channels : Disconnect(c)
    \/ \E q \in WsCreateRequests : CreateTicket(q, AllOk)
    \/ \E q \in WsTicketRequests : TicketDetail(q, AllOk)
    \/ \E q \in ManageRequests : ManageUsers(q)
    \/ Respond

SpecWS == InitWS /\ [][NextWS]_vars

\* The requests to manage_users: a GET, and a POST of every action by every user
\* for every user.
AdminRequests ==
    { [user |-> u, method |-> "GET", action |-> "", target |-> NoUser] : u \in Users }
    \cup
    { [user |-> u, method |-> "POST", action |-> a, target |-> t] :
        u \in Users, t \in Users,
        a \in {"reset_password", "grant_ti", "revoke_ti", "delete_user", ""} }

\* The user administration alone.
InitAdmin ==
    /\ now = StartTime
    /\ _group_cache = EmptyCache
    /\ lastLookup = NoLookup
    /\ wapiCall = NoWapiCall
    /\ listIn = [i \in 1..4 |-> TransportError]
    /\ listOut = NoListOut
    /\ summaryIn = NoSummaryIn
    /\ summaryOut = NoSummaryOut
    /\ report = NoReport
    /\ sendOut = NoSendOut
    /\ updating = NoUpdating
    /\ users = InitUsers
    /\ tickets = [t \in TicketIds |-> NoTicket]
    /\ sessions = InitSessions
    /\ channel_groups = InitGroups
    /\ inventory = << >>
    /\ recipients = {}
    /\ lastReq = NoRequest

NextAdmin ==
    \/ \E q \in AdminRequests : ManageUsers(q)
    \/ Respond

SpecAdmin == InitAdmin /\ [][NextAdmin]_vars

\* A text of n characters: words of five letters, a line break after every
\* fifth word.
Chars(n) == [i \in 1..n |-> IF i % 6 # 0 THEN "a" ELSE IF i % 30 = 0 THEN "\n" ELSE " "]

\* The arguments: titles (at most 140 characters), descriptions, event labels
\* and extra lines that are missing, blank, short, with line breaks, and longer
\* than the summary keeps.
SummaryTitles ==
    { NoChars,
      << "I", "m", "p", "r", "e", "s", "s", "o", "r", "a", " ", "p", "a", "r", "a", "d",
         "a" >>,
      << " ", "S", "e", "m", "\n", "r", "e", "d", "e", " " >>,
      Chars(130) }
SummaryDescriptions ==
    { NoChars,
      << " ", "\n", " " >>,
      << "E", "r", "r", "o", " ", "a", "o", " ", "a", "b", "r", "i", "r", "\n", "o", " ",
         "E", "R", "P" >>,
      Chars(200) }
SummaryLabels ==
    { NoChars,
      << "N", "o", "v", "o", " ", "c", "h", "a", "m", "a", "d", "o" >>,
      << "S", "t", "a", "t", "u", "s", " ", "a", "t", "u", "a", "l", "i", "z", "a", "d",
         "o" >>,
      << "N", "o", "v", "a", " ", "m", "e", "n", "s", "a", "g", "e", "m", " ", "n", "o",
         " ", "c", "h", "a", "m", "a", "d", "o" >>,
      << " ", "N", "O", "V", "A", " ", "M", "E", "N", "S", "A", "G", "E", "M", " " >>,
      << "C", "h", "a", "m", "a", "d", "o", " ", "a", "t", "u", "a", "l", "i", "z", "a",
         "d", "o", ":", " ", "n", "o", "v", "a", " ", "m", "e", "n", "s", "a", "g", "e",
         "m" >>,
      << "E", "n", "c", "e", "r", "r", "a", "m", "e", "n", "t", "o" >> }
SummaryExtraLines ==
    { NoChars,
      << "\n" >>,
      << "S", "t", "a", "t", "u", "s", " ", "a", "t", "u", "a", "l", ":", " ", "E", "m",
         " ", "a", "n", "d", "a", "m", "e", "n", "t", "o", "\n", "R", "e", "s", "p", "o",
         "n", "s", "a", "v", "e", "l", ":", " ", "J", "o", "a", "o" >>,
      Chars(190) }

InitSummary ==
    /\ now = StartTime
    /\ _group_cache = EmptyCache
    /\ lastLookup = NoLookup
    /\ wapiCall = NoWapiCall
    /\ listIn = [i \in 1..4 |-> TransportError]
    /\ listOut = NoListOut
    /\ summaryIn \in [title : SummaryTitles, description : SummaryDescriptions,
                      status : TicketStatus, event_label : SummaryLabels,
                      extra_line : SummaryExtraLines]
    /\ summaryOut = NoSummaryOut
    /\ report = NoReport
    /\ sendOut = NoSendOut
    /\ updating = NoUpdating
    /\ users = InitUsers
    /\ tickets = [t \in TicketIds |-> NoTicket]
    /\ sessions = InitSessions
    /\ channel_groups = InitGroups
    /\ inventory = << >>
    /\ recipients = {}
    /\ lastReq = NoRequest

NextSummary == BuildWhatsappSummary

SpecSummary == InitSummary /\ [][NextSummary]_vars

\* The reports while tickets are created and worked on: two tickets, created
\* by the employee with one of two urgencies and types, taken and resolved by a
\* TI user, reported under some filters.
ReportTicketIds == {1, 2}

ReportCreateRequests ==
    { [user |-> "emp1", method |-> "POST", title |-> SomeText, description |-> SomeText,
       nfiles |-> 0, urgency |-> u, ticket_type |-> t] :
        u \in {"normal", "urgent"}, t \in {"incident", "request"} }

ReportTicketRequests ==
    { Request("ti1", "POST", pk, "in_progress", NoText, NoText, NoText, FALSE, 0) :
        pk \in ReportTicketIds }
    \cup
    { Request("ti1", "POST", pk, "resolve", SomeText, NoText, NoText, FALSE, 0) :
        pk \in ReportTicketIds }

ReportFilters ==
    { NoFilters,
      [NoFilters EXCEPT !.status = RESOLVED],
      [NoFilters EXCEPT !.urgency = "urgent"],
      [NoFilters EXCEPT !.ticket_type = "request"],
      [NoFilters EXCEPT !.status = NEW_STATUS, !.urgency = "urgent"],
      [NoFilters EXCEPT !.status = "closed"] }

InitReports ==
    /\ now = StartTime
    /\ _group_cache = EmptyCache
    /\ lastLookup = NoLookup
    /\ wapiCall = NoWapiCall
    /\ listIn = [i \in 1..4 |-> TransportError]
    /\ listOut = NoListOut
    /\ summaryIn = NoSummaryIn
    /\ summaryOut = NoSummaryOut
    /\ report = NoReport
    /\ sendOut = NoSendOut
    /\ updating = NoUpdating
    /\ users = InitUsers
    /\ tickets = [t \in ReportTicketIds |-> NoTicket]
    /\ sessions = InitSessions
    /\ channel_groups = InitGroups
    /\ inventory = << >>
    /\ recipients = {}
    /\ lastReq = NoRequest

NextReports ==
    \/ \E q \in ReportCreateRequests : CreateTicket(q, AllOk)
    \/ \E q \in ReportTicketRequests : TicketDetail(q, AllOk)
    \/ \E f \in ReportFilters : ReportBegin("ti2", f)
    \/ ReportStatusCounts
    \/ ReportUrgencyCounts
    \/ ReportTypeCounts
    \/ ReportTotal
    \/ Respond

SpecReports == InitReports /\ [][NextReports]_vars

\* The requests to the TI-only views: every method, and the fields each view
\* reads.
Methods == {"GET", "POST", "DELETE"}

ViewRequest(user, method) ==
    [user |-> user, method |-> method, pk |-> 1, action |-> "", recipient_id |-> NoPhone,
     name |-> NoText, category |-> NoText, phone |-> NoPhone, message |-> NoText,
     asset_tag |-> NoText, serial_number |-> NoText, location |-> NoText, holder |-> NoText,
     item_status |-> "", notes |-> NoText,
     to |-> "", json_ok |-> TRUE]

\* A number typed with punctuation and without the country code, and a number
\* that is too short.
TypedPhone ==
    << "(", "1", "4", ")", " ", "9", "8", "8", "2", "0", "-", "8", "1", "3", "4" >>
ShortPhone == << "8", "1", "3", "4" >>

ViewRequests(view) ==
    LET base == { ViewRequest(u, m) : u \in Users, m \in Methods }
        posts == { ViewRequest(u, "POST") : u \in Users }
    IN  CASE view = "inventory_management" ->
                base \cup { [q EXCEPT !.name = SomeText, !.category = SomeText,
                                       !.item_status = "stock"] : q \in posts }
          [] view = "whatsapp_config" ->
                base
                \cup { [q EXCEPT !.name = SomeText, !.phone = ph] :
                         q \in posts, ph \in {TypedPhone, ShortPhone} }
                \cup { [q EXCEPT !.action = "delete_recipient", !.recipient_id = id] :
                         q \in posts, id \in {normalize_phone_number(TypedPhone).digits, NoPhone} }
          [] view = "whatsapp_notify_group" ->
                base
                \cup { [q EXCEPT !.message = m, !.to = to] :
                         q \in posts, m \in {SomeText, PaddedText, Blanks},
                         to \in {"", OtherGroupJid} }
          [] view = "whatsapp_send" ->
                base
                \cup { [q EXCEPT !.message = SomeText, !.to = to] :
                         q \in posts, to \in {TI_CHAMADOS_GROUP_JID, ContactJid, NoDigits} }
                \cup { [q EXCEPT !.json_ok = FALSE] : q \in posts }
          [] view = "whatsapp_send_ti_chamados" ->
                base \cup { [q EXCEPT !.message = SomeText] : q \in posts }
          [] view = "ticket_related" ->
                { [q EXCEPT !.pk = pk] : q \in base, pk \in RequestPks }
          [] OTHER -> base

\* The numbers typed into the recipient form: area code and local number with
\* and without punctuation, country code, international prefix and blanks
\* around; numbers that are too short, too long, of another country, without a
\* digit, empty; a number that is fine but typed with more than 20 characters.
Area == << "1", "4" >>
Local9 == << "9", "8", "8", "2", "0", "8", "1", "3", "4" >>
Local8 == << "3", "2", "2", "0", "8", "1", "3", "4" >>
TypedPhones ==
    { TypedPhone, ShortPhone, NoPhone,
      << "(", ")", " ", "-" >>,
      << " ", " " >>,
      Area \o Local9,
      Area \o Local8,
      << " " >> \o Area \o Local8 \o << " " >>,
      << "5", "5" >> \o Area \o Local8,
      << "+", "5", "5", " " >> \o Area \o Local9,
      << "0", "0", "5", "5" >> \o Area \o Local9,
      << "0", "0" >> \o Area \o Local9,
      << "0", "0" >> \o Local8,
      << "1", "2" >> \o Area \o Local8,
      << "5", "5", "5" >> \o Area \o Local9,
      << "5", "5" >> \o Local9,
      << "+", "5", "5", " ", "(", "1", "4", ")", " ", "9", " ", "8", "8", "2", "0", " ", "-",
         " ", "8", "1", "3", "4" >> }

\* The requests to inventory_management: a GET, and a POST of the form filled
\* in full, with the required fields only, with blanks around the texts,
\* without a name, without or with an unknown status, with a name or an asset
\* tag that is too long.
InventoryRequests ==
    LET full == [ViewRequest("ti2", "POST") EXCEPT
                    !.name = SomeText, !.category = SomeText, !.asset_tag = SomeText,
                    !.serial_number = SomeText, !.location = SomeText, !.holder = SomeText,
                    !.item_status = "in_use", !.notes = LongText]
        forms == { full,
                   [ViewRequest("ti2", "POST") EXCEPT
                       !.name = SomeText, !.category = SomeText, !.item_status = "stock"],
                   [full EXCEPT !.name = PaddedText, !.notes = PaddedText],
                   [full EXCEPT !.name = Blanks],
                   [full EXCEPT !.category = NoText],
                   [full EXCEPT !.item_status = ""],
                   [full EXCEPT !.item_status = "lost"],
                   [full EXCEPT !.name = LongText],
                   [full EXCEPT !.asset_tag = LongText] }
    IN  { ViewRequest(u, "GET") : u \in Users }
        \cup { [q EXCEPT !.user = u] : q \in forms, u \in Users }

\* The inventory alone.
InitInventory ==
    /\ now = StartTime
    /\ _group_cache = EmptyCache
    /\ lastLookup = NoLookup
    /\ wapiCall = NoWapiCall
    /\ listIn = [i \in 1..4 |-> TransportError]
    /\ listOut = NoListOut
    /\ summaryIn = NoSummaryIn
    /\ summaryOut = NoSummaryOut
    /\ report = NoReport
    /\ sendOut = NoSendOut
    /\ updating = NoUpdating
    /\ users = InitUsers
    /\ tickets = [t \in TicketIds |-> NoTicket]
    /\ sessions = InitSessions
    /\ channel_groups = InitGroups
    /\ inventory = << >>
    /\ recipients = {}
    /\ lastReq = NoRequest

NextInventory ==
    \/ \E q \in InventoryRequests : TIOnlyView("inventory_management", q, AllOk)
    \/ Respond

SpecInventory == InitInventory /\ [][NextInventory]_vars

\* The requests to whatsapp_config that add or delete a recipient.
RecipientRequests ==
    { [ViewRequest(u, "POST") EXCEPT !.action = "add_recipient", !.name = n, !.phone = ph] :
        u \in {"ti2", "emp1"}, n \in {SomeText, Blanks}, ph \in TypedPhones }
    \cup
    { [ViewRequest("ti2", "POST") EXCEPT !.action = "delete_recipient", !.recipient_id = id] :
        id \in recipients \cup {NoPhone} }

\* The recipient list alone.
InitRecipients ==
    /\ now = StartTime
    /\ _group_cache = EmptyCache
    /\ lastLookup = NoLookup
    /\ wapiCall = NoWapiCall
    /\ listIn = [i \in 1..4 |-> TransportError]
    /\ listOut = NoListOut
    /\ summaryIn = NoSummaryIn
    /\ summaryOut = NoSummaryOut
    /\ report = NoReport
    /\ sendOut = NoSendOut
    /\ updating = NoUpdating
    /\ users = InitUsers
    /\ tickets = [t \in TicketIds |-> NoTicket]
    /\ sessions = InitSessions
    /\ channel_groups = InitGroups
    /\ inventory = << >>
    /\ recipients = {}
    /\ lastReq = NoRequest

NextRecipients ==
    \/ \E q \in RecipientRequests : TIOnlyView("whatsapp_config", q, AllOk)
    \/ Respond

SpecRecipients == InitRecipients /\ [][NextRecipients]_vars

\* What the outside answers during the request to a view that calls WAPI.
ViewEnvs(view) ==
    IF view \in {"whatsapp_config", "whatsapp_notify_group", "whatsapp_send",
                  "whatsapp_send_ti_chamados", "whatsapp_groups"}
    THEN { AllOk,
           Env([i \in 1..4 |-> TransportError], SendTransportError, TRUE),
           Env(GroupsWith(<< OtherGroupJid >>), SendOk, TRUE) }
    ELSE { AllOk }

TIOnlyViews ==
    { "inventory_management", "whatsapp_config", "whatsapp_notify_group", "whatsapp_send",
      "whatsapp_send_ti_chamados", "whatsapp_groups", "finished_tickets", "ticket_related",
      "ti_reports" }

ViewsCreateRequests ==
    { [user |-> "emp1", method |-> "POST", title |-> SomeText, description |-> SomeText,
       nfiles |-> 0, urgency |-> "normal", ticket_type |-> "incident"] }

InitViews ==
    /\ now = StartTime
    /\ _group_cache = EmptyCache
    /\ lastLookup = NoLookup
    /\ wapiCall = NoWapiCall
    /\ listIn = [i \in 1..4 |-> TransportError]
    /\ listOut = NoListOut
    /\ summaryIn = NoSummaryIn
    /\ summaryOut = NoSummaryOut
    /\ report = NoReport
    /\ sendOut = NoSendOut
    /\ updating = NoUpdating
    /\ users = InitUsers
    /\ tickets = [t \in TicketIds |-> NoTicket]
    /\ sessions = InitSessions
    /\ channel_groups = InitGroups
    /\ inventory = << >>
    /\ recipients = {}
    /\ lastReq = NoRequest

NextViews ==
    \/ \E v \in TIOnlyViews : \E q \in ViewRequests(v), e \in ViewEnvs(v) : TIOnlyView(v, q, e)
    \/ \E q \in ManageRequests \cup { [user |-> u, method |-> m, action |-> "", target |-> "ti2"] :
                                         u \in Users, m \in Methods } : ManageUsers(q)
    \/ \E q \in ViewsCreateRequests : CreateTicket(q, AllOk)
    \/ Respond

SpecViews == InitViews /\ [][NextViews]_vars

\* send_whatsapp_message and whatsapp_send over time: every kind of destination,
\* a group list with and without each group or none at all, and a send endpoint
\* that is unreachable, refuses, answers something that is not JSON, or answers
\* JSON with and without a status and a message id.
SendGroupAnswers ==
    { GroupsWith(<< TI_CHAMADOS_GROUP_JID >>), GroupsWith(<< OtherGroupJid >>),
      GroupsWith(<< >>),
      [i \in 1..4 |-> TransportError],
      [i \in 1..4 |-> Response(404, NotJson)],
      [i \in 1..4 |-> Response(500, NotJson)],
      [i \in 1..4 |-> Response(200, NotJson)] }

SendAnswers ==
    { SendTransportError, SendResponse(500, TRUE, SendResult("success", "", "m1", "")),
      SendResponse(404, FALSE, NoSendResult), SendResponse(200, FALSE, NoSendResult) }
        \cup { SendResponse(200, TRUE, SendResult(st, "", "", "")) :
                  st \in SUCCESS_STATUSES \cup {"error", ""} }
        \cup { SendResponse(200, TRUE, SendResult("", st, "", "")) : st \in {"sent", "failed"} }
        \cup { SendResponse(200, TRUE, SendResult(st, "", m, i)) :
                  st \in {"error", ""}, m \in {"", "m1"}, i \in {"", "i1"} }
        \cup { SendResponse(200, TRUE, SendResult("error", "sent", "", "")) }

SendEnvs == { Env(g, a, TRUE) : g \in SendGroupAnswers, a \in SendAnswers }

SendDestinations ==
    { TI_CHAMADOS_GROUP_JID, OtherGroupJid, ContactJid, FormattedPhone, NoDigits, Blank, "" }

SendRequests ==
    { [q EXCEPT !.message = SomeText, !.to = to] :
        q \in { ViewRequest(u, "POST") : u \in {"ti1", "emp1"} },
        to \in {TI_CHAMADOS_GROUP_JID, ContactJid, NoDigits} }

InitSend ==
    /\ now = StartTime
    /\ _group_cache = EmptyCache
    /\ lastLookup = NoLookup
    /\ wapiCall = NoWapiCall
    /\ listIn = [i \in 1..4 |-> TransportError]
    /\ listOut = NoListOut
    /\ summaryIn = NoSummaryIn
    /\ summaryOut = NoSummaryOut
    /\ report = NoReport
    /\ sendOut = NoSendOut
    /\ updating = NoUpdating
    /\ users = InitUsers
    /\ tickets = [t \in TicketIds |-> NoTicket]
    /\ sessions = InitSessions
    /\ channel_groups = InitGroups
    /\ inventory = << >>
    /\ recipients = {}
    /\ lastReq = NoRequest

NextSend ==
    \/ Tick
    \/ \E d \in SendDestinations, e \in SendEnvs : SendWhatsappMessage(d, e)
    \/ SendReturned
    \/ \E q \in SendRequests, e \in SendEnvs : ~sendOut.done /\ TIOnlyView("whatsapp_send", q, e)
    \/ Respond

SpecSend == InitSend /\ [][NextSend]_vars

\* Status changes of one ticket by requests that overlap: the ticket has been
\* created by the employee, and the TI users and the creator post the actions
\* that change its status.
EventRequests ==
    { Request(u, "POST", 1, a, IF a = "resolve" THEN SomeText ELSE NoText,
              IF a = "awaiting" THEN SomeText ELSE NoText, NoText, FALSE, 0) :
        u \in Users, a \in {"resolve", "in_progress", "awaiting", "reopen", "join_work"} }

InitEvents ==
    /\ now = StartTime
    /\ _group_cache = EmptyCache
    /\ lastLookup = NoLookup
    /\ wapiCall = NoWapiCall
    /\ listIn = [i \in 1..4 |-> TransportError]
    /\ listOut = NoListOut
    /\ summaryIn = NoSummaryIn
    /\ summaryOut = NoSummaryOut
    /\ report = NoReport
    /\ sendOut = NoSendOut
    /\ updating = [NoUpdating EXCEPT !.events = << NEW_STATUS >>]
    /\ users = InitUsers
    /\ tickets = [t \in TicketIds |-> [NoTicket EXCEPT !.exists = TRUE, !.created_by = "emp1"]]
    /\ sessions = InitSessions
    /\ channel_groups = InitGroups
    /\ inventory = << >>
    /\ recipients = {}
    /\ lastReq = NoRequest

NextEvents ==
    \/ \E s \in Slots, q \in EventRequests : UpdateLoad(s, q)
    \/ \E s \in Slots : UpdateSave(s, AllOk)
    \/ \E s \in Slots : UpdateRecordEvent(s)
    \/ \E s \in Slots : UpdateFinish(s, AllOk)

SpecEvents == InitEvents /\ [][NextEvents]_vars

\* ------------------------------------------------------------------ claims

\* The endpoints that answer with a status other than 404.
Answering(a) == { i \in 1..4 : a[i].kind = "http" /\ a[i].status # 404 }
FirstAnswering(a) == CHOOSE i \in Answering(a) : \A j \in Answering(a) : i <= j
FixedOrder == << "group/get-all-groups", "api/<instance>/groups", "groups", "whatsapp/group/list" >>

\* C5 as stated: list_wapi_groups requests the endpoints in the fixed order up to
\* the first that answers with a status other than 404, and returns that
\* endpoint's normalized body whenever the body is JSON; when none answers, it
\* requests all four, returns the empty list and raises nothing.
C5_AsStated ==
    listOut.done =>
        IF Answering(listIn) = {}
        THEN /\ listOut.requested = FixedOrder
             /\ listOut.value = << >>
             /\ listOut.raised = NoException
        ELSE LET k == FirstAnswering(listIn) IN
             /\ listOut.requested = SubSeq(FixedOrder, 1, k)
             /\ listIn[k].body # NotJson =>
                    /\ listOut.raised = NoException
                    /\ listOut.value = _normalize_groups_payload(listIn[k].body)

\* C5 (amended): as C5_AsStated, the normalized body being returned when the
\* first answering endpoint answers with a success status (below 400).
C5_EndpointOrder ==
    listOut.done =>
        IF Answering(listIn) = {}
        THEN /\ listOut.requested = FixedOrder
             /\ listOut.value = << >>
             /\ listOut.raised = NoException
        ELSE LET k == FirstAnswering(listIn) IN
             /\ listOut.requested = SubSeq(FixedOrder, 1, k)
             /\ (listIn[k].status < 400 /\ listIn[k].body # NotJson) =>
                    /\ listOut.raised = NoException
                    /\ listOut.value = _normalize_groups_payload(listIn[k].body)

\* C5 witness: the first endpoint fails, the second answers 404, the third
\* answers 200 with a group list, which is returned.
C5_Witness ==
    /\ listOut.done
    /\ listIn[1].kind = "transport" /\ listIn[2].status = 404
    /\ listIn[3].status = 200 /\ listIn[4].status = 200
    /\ Len(listOut.value) = 2
    /\ Len(listOut.requested) = 3

\* C3 as stated: a call at most 30 s after a lookup that returned a list, whatever
\* the list, requests nothing and decides on that list.
C3_AsStated ==
    (/\ wapiCall.made /\ wapiCall.before.has
     /\ wapiCall.at >= wapiCall.before.t
     /\ wapiCall.at - wapiCall.before.t <= 30) =>
        /\ wapiCall.requested = << >>
        /\ wapiCall.decided
        /\ wapiCall.used = wapiCall.before.groups

\* C3 (amended): a call at most 30 s after a lookup that returned a non-empty
\* list requests nothing and decides existence on that list.
C3_CachedFor30s ==
    (/\ wapiCall.made /\ wapiCall.before.has
     /\ wapiCall.before.groups # << >>
     /\ wapiCall.at >= wapiCall.before.t
     /\ wapiCall.at - wapiCall.before.t <= 30) =>
        /\ wapiCall.requested = << >>
        /\ wapiCall.decided
        /\ wapiCall.used = wapiCall.before.groups
        /\ (wapiCall.raised = NoException) <=>
               (wapiCall.group_id \in GroupListIds(wapiCall.before.groups))

\* C3 witness: a call exactly 30 s after the lookup is answered from the cache.
C3_Witness ==
    /\ wapiCall.made /\ wapiCall.before.has
    /\ wapiCall.before.groups # << >>
    /\ wapiCall.at - wapiCall.before.t = 30
    /\ wapiCall.requested = << >>
    /\ wapiCall.raised = ValueError

\* C4: a call made more than 30 s after the cached list's timestamp requests the
\* list again; it decides only on the list fetched by this call, and a fetch that
\* succeeds replaces the cached list and the cached timestamp.
C4_CacheExpires ==
    (/\ wapiCall.made /\ wapiCall.cacheBefore.has
     /\ wapiCall.at - wapiCall.cacheBefore.ts > 30) =>
        /\ wapiCall.requested # << >>
        /\ wapiCall.decided =>
              /\ _group_cache = [has |-> TRUE, groups |-> wapiCall.used, ts |-> wapiCall.at]
              /\ lastLookup = [has |-> TRUE, groups |-> wapiCall.used, t |-> wapiCall.at]
              /\ (wapiCall.raised = NoException) <=>
                     (wapiCall.group_id \in GroupListIds(wapiCall.used))
        /\ ~wapiCall.decided => wapiCall.raised # NoException

\* C4 witness: a list cached 40 s ago is replaced by a different one, on which
\* the call accepts the group.
C4_Witness ==
    /\ wapiCall.made /\ wapiCall.cacheBefore.has
    /\ wapiCall.cacheBefore.groups # << >>
    /\ wapiCall.at - wapiCall.cacheBefore.ts > 30
    /\ wapiCall.decided /\ wapiCall.raised = NoException
    /\ wapiCall.group_id \notin GroupListIds(wapiCall.cacheBefore.groups)
    /\ _group_cache.ts = wapiCall.at

\* ---------------------------------------------------------------- C1, C2

\* The things of one kind a request did.
Effects(trace, op) == SelectSeq(trace, LAMBDA e : e.op = op)
Did(trace, op, a) == \E i \in 1..Len(trace) : trace[i].op = op /\ trace[i].a = a

\* The request being answered made a notification that failed.
NotificationFailed ==
    \E i \in 1..Len(lastReq.trace) :
        /\ lastReq.trace[i].op \in {"whatsapp", "email"}
        /\ ~lastReq.trace[i].ok

\* The request being answered is one of the operations that notify: it created
\* a ticket, changed a status or stored a message.
Notifying ==
    \/ Did(lastReq.trace, "ticket.save", NEW_STATUS)
    \/ Did(lastReq.trace, "TicketEvent", "status_change")
    \/ Effects(lastReq.trace, "TicketMessage.save") # << >>

\* C1 as stated: a request that creates a ticket, changes a status or posts a
\* message and whose notification fails still ends with its redirect, and every
\* write of the operation is made: each uploaded file is stored, and join_work
\* leaves the user among the working users.
C1_AsStated ==
    (Notifying /\ NotificationFailed) =>
        /\ lastReq.status = 302
        /\ lastReq.raised = NoException
        /\ (Did(lastReq.trace, "ticket.save", NEW_STATUS)
               \/ Effects(lastReq.trace, "TicketMessage.save") # << >>)
              => Len(Effects(lastReq.trace, "TicketAttachment")) = lastReq.nfiles
        /\ (lastReq.action = "join_work" /\ Did(lastReq.trace, "TicketEvent", "status_change"))
              => lastReq.user \in tickets[lastReq.pk].working_users

\* The request being answered changed a ticket's status through a ticket action.
StatusChanged ==
    lastReq.view = "ticket_detail" /\ Did(lastReq.trace, "TicketEvent", "status_change")

\* C2 as stated: a status change made by a ticket action broadcasts exactly one
\* 'ticket_status_changed' event, after the save, attempts one WhatsApp
\* notification, and attempts one e-mail when the creator has an address.
C2_AsStated ==
    StatusChanged =>
        LET trace == lastReq.trace
            sends == { i \in 1..Len(trace) :
                         trace[i].op = "group_send" /\ trace[i].b = "ticket_status_changed" }
        IN  /\ Cardinality(sends) = 1
            /\ \A i \in sends : \E j \in 1..(i - 1) : trace[j].op = "ticket.save"
            /\ \A i \in sends : trace[i].a = "tickets"
            /\ Len(Effects(trace, "whatsapp")) = 1
            /\ users[lastReq.before.created_by].has_email
                  => Len(Effects(trace, "email")) = 1

\* --------------------------------------------------------------- C8, C10

\* The user has TI access: member of the group TI, or staff.
HasTI(u) == users[u].ti_group \/ users[u].is_staff

\* The request being answered is a ticket_detail request for a ticket that exists.
OnTicket == lastReq.view = "ticket_detail" /\ lastReq.before.exists

\* C8: a user who is neither TI nor the creator gets 403 from ticket_detail and
\* changes nothing; a creator without TI access changes status, assigned_to or
\* working_users only by reopening a resolved ticket, which goes to in_progress;
\* resolve, in_progress, awaiting and join_work of a non-TI user leave the ticket
\* as it was.
C8_ElevatedPermission ==
    (OnTicket /\ ~HasTI(lastReq.user)) =>
        LET before == lastReq.before
            after == tickets[lastReq.pk]
        IN  /\ before.created_by # lastReq.user =>
                  /\ lastReq.status = 403
                  /\ after = before
                  /\ lastReq.trace = << >>
            /\ before.created_by = lastReq.user =>
                  \/ /\ after.status = before.status
                     /\ after.assigned_to = before.assigned_to
                     /\ after.working_users = before.working_users
                  \/ /\ lastReq.action = "reopen"
                     /\ before.status = RESOLVED
                     /\ after.status = IN_PROGRESS
            /\ lastReq.action \in {"resolve", "in_progress", "awaiting", "join_work"} =>
                  after = before

\* A creator without TI access has reopened their resolved ticket.
C8_Witness ==
    /\ OnTicket /\ ~HasTI(lastReq.user)
    /\ lastReq.before.created_by = lastReq.user
    /\ lastReq.action = "reopen" /\ lastReq.before.status = RESOLVED
    /\ tickets[lastReq.pk].status = IN_PROGRESS
    /\ lastReq.before.assigned_to # NoUser

\* C10: the status of a ticket is one of new, in_progress, awaiting, resolved;
\* a ticket that create_ticket creates starts as new; a ticket that has left new
\* is never put back to new.
C10_StatusLifecycle ==
    [][\A t \in TicketIds :
          /\ tickets'[t].status \in TicketStatus
          /\ (~tickets[t].exists /\ tickets'[t].exists) => tickets'[t].status = NEW_STATUS
          /\ (tickets[t].exists /\ tickets[t].status # NEW_STATUS)
                => tickets'[t].status # NEW_STATUS]_vars

\* A ticket that was resolved has been reopened by a ticket action and is in
\* progress.
C10_Witness ==
    /\ OnTicket
    /\ lastReq.action = "reopen" /\ lastReq.before.status = RESOLVED
    /\ lastReq.before.resolved_at # 0
    /\ tickets[lastReq.pk].status = IN_PROGRESS /\ tickets[lastReq.pk].resolved_at = 0

\* ---------------------------------------------------------------- C6, C9

\* The session connected as an authenticated user and has not disconnected.
Live(c) ==
    /\ sessions[c].state \notin {"none", "closed"}
    /\ sessions[c].user # Anonymous

\* C6: the events a request broadcasts reach exactly the sessions that connected
\* as an authenticated user and have not disconnected; an unauthenticated
\* connection is closed and is in no group; a disconnected session is in no
\* group; a session of the group 'ti' is in the group 'tickets' and its user had
\* TI access when it connected.
C6_FanOut ==
    \A c \in Channels :
        /\ lastReq.delivered[c] = IF Live(c) THEN GroupSends(lastReq.trace) ELSE << >>
        /\ (sessions[c].state # "none" /\ sessions[c].user = Anonymous) =>
              /\ sessions[c].state \in {"rejected", "closed"}
              /\ c \notin channel_groups.tickets \cup channel_groups.ti
        /\ sessions[c].state = "closed" =>
              c \notin channel_groups.tickets \cup channel_groups.ti
        /\ c \in channel_groups.ti =>
              c \in channel_groups.tickets /\ sessions[c].had_ti

\* A request broadcasts an event while one session is live and the other, of a
\* TI user, has disconnected.
C6_Witness ==
    /\ GroupSends(lastReq.trace) # << >>
    /\ \E c, d \in Channels :
        /\ Live(c) /\ lastReq.delivered[c] # << >>
        /\ sessions[d].state = "closed" /\ sessions[d].had_ti
        /\ lastReq.delivered[d] = << >>

\* C9 as stated: a message is stored as internal only when its author has TI
\* access, and the text of an internal message reaches no user without TI
\* access: no 'ticket_message' event delivered to the session of such a user
\* carries it, and no e-mail to a creator without TI access carries it.
C9_AsStated ==
    LET trace == lastReq.trace
    IN  /\ \A i \in 1..Len(trace) :
              (trace[i].op = "TicketMessage.save" /\ trace[i].b = "internal")
                  => HasTI(trace[i].a)
        /\ \A c \in Channels :
              (sessions[c].user \in Users /\ ~HasTI(sessions[c].user)) =>
                  \A i \in 1..Len(lastReq.delivered[c]) :
                      ~( /\ lastReq.delivered[c][i].b = "ticket_message"
                         /\ lastReq.delivered[c][i].ok = "internal" )
        /\ \A i \in 1..Len(trace) :
              (trace[i].op = "email" /\ trace[i].b = "internal") => HasTI(trace[i].a)

\* -------------------------------------------------------------------- C7

\* C7 as stated: every TI-only view answers a user who is neither in the group
\* TI nor staff with 403, whatever the method, changes no row and calls WAPI
\* not at all.
C7_AsStated ==
    [][(lastReq'.view \in TIOnlyViews \cup {"manage_users"} /\ ~HasTI(lastReq'.user)) =>
          /\ lastReq'.status = 403
          /\ lastReq'.trace = << >>
          /\ UNCHANGED << users, tickets, inventory, recipients, _group_cache >>]_vars


\* ------------------------------------------------------------------- C11

\* The request being answered is a POST of a TI user to ticket_detail for a
\* ticket that exists.
TIPostOnTicket == OnTicket /\ lastReq.method = "POST" /\ lastReq.is_ti

\* The events of one type a request recorded.
Events(trace, type) == SelectSeq(trace, LAMBDA e : e.op = "TicketEvent" /\ e.a = type)

\* C11: join_work of a TI user on a ticket that is in progress adds the user
\* to working_users and records one WORKING_USER event; status, assigned_to,
\* resolved_at and resolution stay as they were and there is no status event,
\* no broadcast and no notification.  The action in_progress of a TI user
\* leaves the acting user as assigned_to.
C11_WorkingUsers ==
    TIPostOnTicket =>
        LET before == lastReq.before
            after == tickets[lastReq.pk]
        IN  /\ (lastReq.action = "join_work" /\ before.status = IN_PROGRESS) =>
                  /\ after.working_users = before.working_users \cup {lastReq.user}
                  /\ Len(Events(lastReq.trace, "working_user")) = 1
                  /\ after.status = before.status
                  /\ after.assigned_to = before.assigned_to
                  /\ after.resolved_at = before.resolved_at
                  /\ after.resolution = before.resolution
                  /\ Events(lastReq.trace, "status_change") = << >>
                  /\ Effects(lastReq.trace, "ticket.save") = << >>
                  /\ Effects(lastReq.trace, "group_send") = << >>
                  /\ Effects(lastReq.trace, "whatsapp") = << >>
                  /\ Effects(lastReq.trace, "email") = << >>
                  /\ lastReq.raised = NoException /\ lastReq.status = 302
            /\ lastReq.action = "in_progress" => after.assigned_to = lastReq.user

\* A second TI user has joined a ticket in progress that another TI user owns.
C11_Witness ==
    /\ TIPostOnTicket
    /\ lastReq.action = "join_work" /\ lastReq.before.status = IN_PROGRESS
    /\ lastReq.before.assigned_to \notin {NoUser, lastReq.user}
    /\ lastReq.user \notin lastReq.before.working_users
    /\ tickets[lastReq.pk].assigned_to = lastReq.before.assigned_to
    /\ lastReq.user \in tickets[lastReq.pk].working_users

\* -------------------------------------------------------------- C12, C13

\* The request being answered is a POST to manage_users by a TI user for a user
\* that exists (the view answered with its redirect).
ManagePost(req, action) ==
    /\ req.view = "manage_users" /\ req.method = "POST" /\ req.is_ti
    /\ req.action = action /\ req.status = 302

\* C12: after a TI user has posted grant_ti for an existing user, that user is
\* in the group TI and is staff, whatever the row held before; nothing else of
\* the row and no other user changes, so granting again changes nothing.
C12_GrantTI ==
    [][ManagePost(lastReq', "grant_ti") =>
          LET target == lastReq'.target
          IN  /\ users'[target].ti_group /\ users'[target].is_staff
              /\ users' = [users EXCEPT
                              ![target] = [@ EXCEPT !.ti_group = TRUE, !.is_staff = TRUE]]
              /\ (users[target].ti_group /\ users[target].is_staff) => users' = users]_vars

\* The employee has been promoted: grant_ti was posted for emp1, who is now
\* staff and in the group TI.
C12_Witness ==
    /\ ManagePost(lastReq, "grant_ti") /\ lastReq.target = "emp1"
    /\ users["emp1"].is_staff /\ users["emp1"].ti_group
    /\ ~users["emp1"].is_superuser

\* The page of manage_users is being shown to a TI user.
ManagePage == lastReq.view = "manage_users" /\ lastReq.status = 200

\* C13: the promotable_users list of the manage_users page is exactly the set
\* of the users that are neither staff nor in the group TI; so a user promoted
\* by grant_ti is no longer in it and no user with TI access is offered.
C13_PromotableUsers ==
    ManagePage =>
        /\ lastReq.promotable_users = { u \in Users : users[u].exists /\ ~HasTI(u) }
        /\ \A u \in lastReq.promotable_users : ~_is_ti(u)

\* The page is shown after emp1 was promoted and ti1 lost the group: emp1 is
\* not offered, ti1 (still staff) is not offered, ti2 (demoted) is.
C13_Witness ==
    /\ ManagePage
    /\ HasTI("emp1") /\ "emp1" \notin lastReq.promotable_users
    /\ users["ti1"].is_staff /\ ~users["ti1"].ti_group
    /\ "ti2" \in lastReq.promotable_users

\* ------------------------------------------------------------------- C14

\* The form the stored numbers have: 12 or 13 digits, the first two 55.
WellFormed(phone) ==
    /\ Len(phone) \in {12, 13}
    /\ \A i \in 1..Len(phone) : phone[i] \in Digit
    /\ phone[1] = "5" /\ phone[2] = "5"

\* What the sentence says of a typed number: the characters that are not
\* digits removed, then a leading 00 dropped, then 55 put in front of 10 or 11
\* digits.
BroughtToForm(typed) ==
    LET digits == SelectSeq(typed, LAMBDA ch : ch \in Digit)
        dropped == IF Len(digits) >= 2 /\ digits[1] = "0" /\ digits[2] = "0"
                   THEN SubSeq(digits, 3, Len(digits)) ELSE digits
    IN  IF Len(dropped) \in {10, 11} THEN << "5", "5" >> \o dropped ELSE dropped

\* A request to whatsapp_config that posts the recipient form is answered.
RecipientPosted(req) ==
    /\ req.view = "whatsapp_config" /\ req.method = "POST"
    /\ req.action # "delete_recipient"

\* C14: every stored recipient number has 12 or 13 digits and starts with 55;
\* a request that stores a recipient stores the typed number with the
\* non-digits removed, a leading 00 dropped and 55 put in front of 10 or 11
\* digits; a typed number that this does not bring to the form stores nothing.
C14_NormalizedRecipient ==
    [][/\ \A p \in recipients' : WellFormed(p)
       /\ RecipientPosted(lastReq') =>
             /\ recipients' # recipients =>
                   /\ recipients' = recipients \cup {BroughtToForm(lastReq'.phone)}
                   /\ lastReq'.status = 302
             /\ ~WellFormed(BroughtToForm(lastReq'.phone)) =>
                   /\ recipients' = recipients
                   /\ lastReq'.is_ti => lastReq'.status = 200]_vars

\* Two recipients are stored; the one just saved was typed with the
\* international prefix 00 and without the country code.
C14_Witness ==
    /\ RecipientPosted(lastReq) /\ lastReq.status = 302
    /\ lastReq.phone = << "0", "0" >> \o Area \o Local9
    /\ << "5", "5" >> \o Area \o Local9 \in recipients
    /\ << "5", "5" >> \o Area \o Local8 \in recipients

\* ------------------------------------------------------------------- C15

\* A POST of a TI user to whatsapp_notify_group is answered.
GroupNotified ==
    lastReq.view = "whatsapp_notify_group" /\ lastReq.method = "POST" /\ lastReq.is_ti

\* The calls of send_whatsapp_message the request made.
SendCalls == Effects(lastReq.trace, "send_whatsapp_message")

\* C15 as stated: a non-blank message gives exactly one call of
\* send_whatsapp_message, to the configured group, whose text is the posted
\* message; a blank message gives no call.
C15_AsStated ==
    GroupNotified =>
        IF strip(lastReq.message) # NoText
        THEN /\ Len(SendCalls) = 1
             /\ SendCalls[1].a = TI_CHAMADOS_GROUP_JID
             /\ SendCalls[1].text = lastReq.message
        ELSE lastReq.trace = << >>

\* C15: a POST of a TI user to whatsapp_notify_group with a non-blank message
\* calls send_whatsapp_message exactly once, with the configured group as the
\* destination, whatever the request names, and the posted message without the
\* blanks around it as the text; with a blank message it calls nothing.
C15_ConfiguredGroup ==
    GroupNotified =>
        IF strip(lastReq.message) # NoText
        THEN /\ Len(SendCalls) = 1
             /\ SendCalls[1].a = TI_CHAMADOS_GROUP_JID
             /\ SendCalls[1].text = strip(lastReq.message)
             /\ lastReq.status = 302
        ELSE lastReq.trace = << >> /\ lastReq.status = 302

\* A message typed with blanks around it was posted together with another
\* group id, and was sent to the configured group.
C15_Witness ==
    /\ GroupNotified
    /\ lastReq.to = OtherGroupJid /\ lastReq.message = PaddedText
    /\ Len(SendCalls) = 1 /\ SendCalls[1].ok
    /\ SendCalls[1].text # lastReq.message

\* ------------------------------------------------------------------- C16

\* The white space of a text collapsed: what is left of a text on one line.
OneLine(text) == join(split(text))

\* The prefix the label asks for: 'nova mensagem' first, then 'atualizado';
\* the label is read without regard to capitals.
PrefixFor(event_label) ==
    IF Contains(lower(event_label), NovaMensagem) THEN NewMessagePrefix
    ELSE IF Contains(lower(event_label), Atualizado) THEN UpdatedPrefix
    ELSE NewTicketPrefix

\* The summary holds no line break.
SingleLine == \A i \in 1..Len(summaryOut.body) : summaryOut.body[i] # "\n"

\* C16 as stated: the summary is a single line that starts with the prefix the
\* label asks for, and the new-ticket prefix is followed by the title and the
\* description, or '-' when there is no description.
C16_AsStated ==
    summaryOut.done =>
        /\ SingleLine
        /\ summaryOut.prefix = PrefixFor(summaryIn.event_label)
        /\ summaryOut.prefix = NewTicketPrefix =>
              summaryOut.body =
                  OneLine(summaryIn.title) \o << " | Mensagem: " >>
                  \o Or(OneLine(summaryIn.description), << "-" >>)

\* The text is the one-line text itself, or, when that is longer than width,
\* some of its first words followed by '...', within the width.
Shortened(text, width, result) ==
    IF Len(OneLine(text)) <= width THEN result = OneLine(text)
    ELSE /\ Len(result) <= width
         /\ \E k \in 0..Len(split(text)) :
               result = join(SubSeq(split(text), 1, k)) \o << ".", ".", "." >>

\* C16: the summary is a single line that starts with the prefix the label asks
\* for; the new-ticket prefix is followed by the title shortened to 120
\* characters, ' | Mensagem: ' and the description shortened to 160 characters,
\* or '-' when the description is empty or blank.
C16_SummaryLine ==
    summaryOut.done =>
        /\ SingleLine
        /\ summaryOut.prefix = PrefixFor(summaryIn.event_label)
        /\ summaryOut.prefix = NewTicketPrefix =>
              \E t \in {shorten(summaryIn.title, TitleWidth)} :
              \E d \in {shorten(summaryIn.description, DescriptionWidth)} :
                  /\ Shortened(summaryIn.title, TitleWidth, t)
                  /\ Shortened(summaryIn.description, DescriptionWidth, d)
                  /\ summaryOut.body = t \o << " | Mensagem: " >> \o Or(d, << "-" >>)

\* A summary of a new ticket whose title and description hold line breaks and
\* whose description is longer than the summary keeps.
C16_Witness ==
    /\ summaryOut.done
    /\ summaryOut.prefix = NewTicketPrefix
    /\ \E i \in 1..Len(summaryIn.title) : summaryIn.title[i] = "\n"
    /\ Len(summaryIn.description) > DescriptionWidth
    /\ Len(summaryOut.body) < Len(summaryIn.description)

\* ------------------------------------------------------------------- C17

\* A POST of a TI user to inventory_management is answered.
InventoryPosted(req) ==
    req.view = "inventory_management" /\ req.method = "POST" /\ req.is_ti

\* The form the sentence calls valid: name, category and a status of the list
\* are there, and no text is longer than its column.
ValidItem(item) ==
    /\ strip(item.name) # NoText /\ strip(item.category) # NoText
    /\ item.status \in InventoryStatus
    /\ strip(item.name).len <= InventoryNameMaxLength
    /\ strip(item.category).len <= InventoryCategoryMaxLength
    /\ strip(item.asset_tag).len <= AssetTagMaxLength
    /\ strip(item.serial_number).len <= SerialNumberMaxLength
    /\ strip(item.location).len <= LocationMaxLength
    /\ strip(item.assigned_to).len <= AssignedToMaxLength

\* C17 as stated: a valid form posted by a TI user adds exactly one item that
\* carries the posted fields and the posting user as created_by, and is
\* answered with a redirect; an invalid form adds no item.
C17_AsStated ==
    [][InventoryPosted(lastReq') =>
          IF ValidItem(lastReq'.item)
          THEN /\ inventory' =
                     Append(inventory, [created_by |-> lastReq'.user] @@ lastReq'.item)
               /\ lastReq'.status = 302
          ELSE inventory' = inventory]_vars

\* C17: a valid form posted by a TI user adds exactly one item that carries the
\* posted fields, the texts without the blanks around them, and the posting
\* user as created_by, and is answered with a redirect; an invalid form adds no
\* item and is answered with the page.
C17_InventoryItem ==
    [][InventoryPosted(lastReq') =>
          IF ValidItem(lastReq'.item)
          THEN /\ Len(inventory') = Len(inventory) + 1
               /\ SubSeq(inventory', 1, Len(inventory)) = inventory
               /\ LET item == inventory'[Len(inventory')]
                      posted == lastReq'.item
                  IN  /\ item.created_by = lastReq'.user
                      /\ item.status = posted.status
                      /\ \A f \in {"name", "category", "asset_tag", "serial_number",
                                   "location", "assigned_to", "notes"} :
                            item[f] = strip(posted[f])
               /\ lastReq'.status = 302
          ELSE inventory' = inventory /\ lastReq'.status = 200]_vars

\* An item was created from a form whose name was typed with blanks around it.
C17_Witness ==
    /\ InventoryPosted(lastReq) /\ lastReq.status = 302
    /\ lastReq.item.name = PaddedText
    /\ Len(inventory) = 1
    /\ inventory[1].created_by = lastReq.user
    /\ inventory[1].name # lastReq.item.name

\* ------------------------------------------------------------------- C18

\* The sum of the counts of a breakdown.
RECURSIVE SumOf(_, _)
SumOf(counts, keys) ==
    IF keys = {} THEN 0
    ELSE LET k == CHOOSE x \in keys : TRUE
         IN  counts[k] + SumOf(counts, keys \ {k})

\* The page of ti_reports is being answered.
ReportShown == lastReq.view = "ti_reports" /\ lastReq.status = 200 /\ report.pc = "done"

\* C18 as stated: in one ti_reports response the counts per status, per
\* urgency and per type each sum to total_tickets, resolved_count is the number
\* of matching tickets that are resolved and pending_count the number of
\* matching tickets that are not, also when tickets are created or change
\* status while the report is computed.
C18_AsStated ==
    ReportShown =>
        LET matching == queryset(report.filters)
        IN  /\ SumOf(report.status_counts, TicketStatus) = report.total_tickets
            /\ SumOf(report.urgency_counts, TicketUrgency) = report.total_tickets
            /\ SumOf(report.type_counts, TicketType) = report.total_tickets
            /\ report.resolved_count =
                  Cardinality({ t \in matching : tickets[t].status = RESOLVED })
            /\ report.pending_count =
                  Cardinality({ t \in matching : tickets[t].status # RESOLVED })

\* ---- C19

\* What a call of send_whatsapp_message requested: the POST to the send
\* endpoint, and the requests for the group list.
SendPosts(requests) == SelectSeq(requests, LAMBDA u : u = "message/send-text")
ListRequests(requests) == SelectSeq(requests, LAMBDA u : u # "message/send-text")

\* The group endpoints give no list: none answers, or the one that answers
\* gives an error or something that is not JSON.
NoListFetched(answers) ==
    \A i \in 1..4 :
        \/ answers[i].kind = "transport"
        \/ answers[i].status >= 400
        \/ answers[i].body = NotJson

\* C19: a message is never posted to a group that failed the existence check.
\* For a destination ending in '@g.us', send_whatsapp_message posts to the send
\* endpoint only once the group has been found in the group list (the one just
\* fetched, or the one cached less than 30 seconds before), and the POST comes
\* after every group-list request; when the group is not in the list, or the
\* list is requested and cannot be fetched, it raises ValueError and posts
\* nothing.  For a contact destination it posts without any group-list request.
C19_GroupCheckedFirst ==
    sendOut.done =>
        LET requests == sendOut.requests
            posted == SendPosts(requests) # << >>
            listed == GroupListIds(sendOut.cache.groups)
            fresh == sendOut.cache.has /\ sendOut.at - sendOut.cache.ts <= CacheTTL
        IN  /\ sendOut.destination \in GroupIds =>
                /\ posted =>
                    /\ sendOut.destination \in listed /\ fresh
                    /\ Len(SendPosts(requests)) = 1
                    /\ requests[Len(requests)] = "message/send-text"
                /\ ~posted => sendOut.raised = ValueError /\ ~sendOut.returned
                /\ sendOut.destination \notin listed => ~posted
                /\ ListRequests(requests) # << >> /\ NoListFetched(sendOut.groups) => ~posted
            /\ sendOut.destination \in {ContactJid, FormattedPhone} =>
                /\ ListRequests(requests) = << >>
                /\ requests = << "message/send-text" >>
                /\ sendOut.cache = sendOut.cacheBefore

\* A message went to a group found in the cached list without a new request for
\* the list; a send to a group that is not in the fetched list was refused; a
\* send to a group whose list could not be fetched was refused; a contact was
\* sent to.
C19_Witness ==
    /\ sendOut.done /\ sendOut.destination = OtherGroupJid
    /\ sendOut.raised = ValueError
    /\ ListRequests(sendOut.requests) # << >>
    /\ NoListFetched(sendOut.groups)
    /\ GroupListIds(sendOut.cacheBefore.groups) = {OtherGroupJid}

\* ---- C20

\* The send endpoint answered the POST with a success status and a JSON body
\* that carries a status (status, or else state) of SUCCESS_STATUSES or a
\* message id (messageId or insertedId).
ProviderAccepted(send) ==
    /\ send.kind = "http" /\ send.status < 400 /\ send.json
    /\ \/ (IF send.result.status # "" THEN send.result.status ELSE send.result.state)
              \in {"success", "sent", "ok", "queued"}
       \/ send.result.messageId # ""
       \/ send.result.insertedId # ""

\* send_whatsapp_message returns exactly when the provider accepted the POST,
\* and a POST that was not accepted raises RequestException.
SendReturnsAccepted ==
    sendOut.done =>
        LET posted == SendPosts(sendOut.requests) # << >>
        IN  /\ sendOut.returned <=> (posted /\ ProviderAccepted(sendOut.send))
            /\ sendOut.returned => sendOut.raised = NoException
            /\ posted /\ ~ProviderAccepted(sendOut.send) =>
                   "RequestException" \in sendOut.raised /\ ~sendOut.returned

\* whatsapp_send answers 200 (ok = true) exactly when the provider accepted
\* the POST, and 502 when the provider did not accept it.
WhatsappSendAnswers ==
    lastReq.view = "whatsapp_send" /\ lastReq.is_ti =>
        LET posted == \E i \in 1..Len(lastReq.trace) :
                          lastReq.trace[i].op = "wapi" /\ lastReq.trace[i].a = "message/send-text"
        IN  /\ lastReq.status = 200 <=> (posted /\ ProviderAccepted(lastReq.send))
            /\ posted /\ ~ProviderAccepted(lastReq.send) => lastReq.status = 502

\* C20: send_whatsapp_message returns the provider's response if and only if
\* the HTTP call succeeded and the response carries a status of {success, sent,
\* ok, queued} or a message id; every other outcome of the call raises
\* RequestException and returns nothing; so whatsapp_send answers ok = true
\* only for such a response and 502 for a provider failure.
C20_AsStated == SendReturnsAccepted /\ WhatsappSendAnswers

\* ---- C21

\* The first endpoint that does not answer 404 (and answers at all) answers
\* with an error status.
FirstAnswerIsError(answers) ==
    \E i \in 1..4 :
        /\ answers[i].kind = "http" /\ answers[i].status # 404 /\ answers[i].status >= 400
        /\ \A j \in 1..(i - 1) : answers[j].kind = "transport" \/ answers[j].status = 404

\* C21: an HTTP error status other than 404 from the group-list API is reported
\* as an error and not as an empty list: when the first endpoint that does not
\* answer 404 answers with an error status such as 500, list_wapi_groups raises
\* RequestException, whatsapp_groups answers 502, and ensure_group_exists
\* raises the 'could not validate' ValueError and not 'group not found'.
C21_AsStated ==
    listOut.done /\ FirstAnswerIsError(listIn) =>
        /\ "RequestException" \in listOut.raised
        /\ groups_answer(_group_cache, list_wapi_groups(listIn)).status = 502
        /\ \E r \in {ensure_group_exists(EmptyCache, TI_CHAMADOS_GROUP_JID, now, listIn)} :
               r.raised = ValueError /\ r.msg = "could not validate"

\* ---- C22

\* The request being answered posted a ticket action that the handler rejects:
\* awaiting without a pause reason (empty, or blanks only), or resolve with a
\* resolution the form refuses (empty, blanks only, or more than 1000
\* characters).
RejectedAction ==
    /\ OnTicket /\ lastReq.method = "POST" /\ lastReq.is_ti
    /\ \/ lastReq.action = "awaiting" /\ strip(lastReq.pause_reason) = NoText
       \/ /\ lastReq.action = "resolve"
          /\ strip(lastReq.resolution) = NoText \/ strip(lastReq.resolution).len > 1000

\* C22: a rejected ticket action changes nothing about the ticket: status,
\* assigned_to, resolved_at, resolution and working_users are as before, no
\* TicketEvent is recorded and no 'ticket_status_changed' event is broadcast.
C22_RejectedAction ==
    RejectedAction =>
        LET before == lastReq.before
            after == tickets[lastReq.pk]
        IN  /\ after.status = before.status
            /\ after.assigned_to = before.assigned_to
            /\ after.resolved_at = before.resolved_at
            /\ after.resolution = before.resolution
            /\ after.working_users = before.working_users
            /\ Effects(lastReq.trace, "TicketEvent") = << >>
            /\ Effects(lastReq.trace, "ticket.save") = << >>
            /\ \A i \in 1..Len(lastReq.trace) :
                   lastReq.trace[i].op = "group_send" =>
                       lastReq.trace[i].b # "ticket_status_changed"
            /\ \A c \in Channels : \A i \in 1..Len(lastReq.delivered[c]) :
                   lastReq.delivered[c][i].b # "ticket_status_changed"

\* A TI user asked to resolve a ticket in progress, assigned and worked on, with
\* a resolution of more than 1000 characters, and was shown the page again.
C22_Witness ==
    /\ RejectedAction /\ lastReq.action = "resolve" /\ lastReq.resolution.len > 1000
    /\ lastReq.before.status = IN_PROGRESS /\ lastReq.before.assigned_to # NoUser
    /\ lastReq.before.working_users # {}
    /\ tickets[lastReq.pk] = lastReq.before
    /\ lastReq.status = 200

\* ---- C23

\* What a TI-only view answers to a GET of the user.
ViewStatusFor(view, user) ==
    IF view = "manage_users"
    THEN manage_users([user |-> user, method |-> "GET", action |-> "", target |-> NoUser]).status
    ELSE urlpatterns(view, ViewRequest(user, "GET"), _group_cache, AllOk).status

\* C23: after a TI user has posted revoke_ti for another user, that user has
\* no TI access: the user is not in the group TI, _is_ti is false for the
\* user, and every TI-only view answers the user with 403.
C23_AsStated ==
    (ManagePost(lastReq, "revoke_ti") /\ lastReq.target # lastReq.user) =>
        LET target == lastReq.target
        IN  /\ ~users[target].ti_group
            /\ ~_is_ti(target)
            /\ \A v \in TIOnlyViews \cup {"manage_users"} : ViewStatusFor(v, target) = 403

\* ---- C24

\* The request being answered changed the status of a ticket through a ticket
\* action and ended with its redirect.
CompletedStatusAction ==
    /\ OnTicket /\ lastReq.method = "POST" /\ lastReq.status = 302
    /\ Events(lastReq.trace, "status_change") # << >>

\* C24: after every ticket action, in any sequence of actions, resolved_at is
\* set if and only if the status of the ticket is resolved: resolve sets it,
\* every transition to another status (reopen too) clears it, and a resolved
\* ticket has a resolution text that is not empty.
C24_ResolvedAt ==
    /\ \A t \in DOMAIN tickets :
           tickets[t].exists =>
               /\ tickets[t].resolved_at # 0 <=> tickets[t].status = RESOLVED
               /\ tickets[t].status = RESOLVED => strip(tickets[t].resolution) # NoText
    /\ CompletedStatusAction =>
           LET after == tickets[lastReq.pk]
           IN  /\ lastReq.action = "resolve" =>
                      after.status = RESOLVED /\ after.resolved_at = now
               /\ lastReq.action # "resolve" =>
                      after.status # RESOLVED /\ after.resolved_at = 0

\* A resolved ticket has been reopened: it is in progress, resolved_at is
\* cleared, and the resolution text of the earlier resolve is still there.
C24_Witness ==
    /\ CompletedStatusAction /\ lastReq.action = "reopen"
    /\ lastReq.before.status = RESOLVED /\ lastReq.before.resolved_at # 0
    /\ tickets[lastReq.pk].status = IN_PROGRESS
    /\ tickets[lastReq.pk].resolved_at = 0
    /\ tickets[lastReq.pk].resolution # NoText

\* ---- C25

\* C25: a resolved ticket leaves the status resolved through the action reopen
\* only: no other ticket action (in_progress, awaiting, join_work, resolve, a
\* posted message) changes the status of a ticket that is resolved, and no user
\* is added to the working_users of a ticket while it is resolved.
C25_AsStated ==
    (OnTicket /\ lastReq.before.status = RESOLVED) =>
        LET before == lastReq.before
            after == tickets[lastReq.pk]
        IN  /\ lastReq.action # "reopen" => after.status = RESOLVED
            /\ after.status = RESOLVED => after.working_users = before.working_users

\* ---- C26

\* No request is in progress.
NoUpdateRunning == \A s \in Slots : updating.slots[s].pc = "idle"

\* C26: the event log agrees with the ticket: every status change records one
\* STATUS event whose status is the new status, and whenever no request is in
\* progress the status of the latest event of the ticket that carries a status
\* equals the status of the ticket, also when two status changes of the same
\* ticket, each working on its own loaded copy, overlap.
C26_AsStated ==
    /\ Len(updating.events) =
           1 + updating.started
             - Cardinality({ s \in Slots : updating.slots[s].pc \in {"loaded", "saved"} })
    /\ NoUpdateRunning =>
           \A t \in TicketIds :
               tickets[t].exists => updating.events[Len(updating.events)] = tickets[t].status

====
